---- MODULE Spec2Model ----
(***************************************************************************)
(* A model of fidget's tile renderer (fidget/src/render.rs), of the        *)
(* IntervalAssembler (fidget/src/jit/interval.rs, both architectures) and  *)
(* of the jitfive dynasm backend (jitfive/src/backend/dynasm.rs).          *)
(*                                                                         *)
(* The module holds several state machines over one set of variables; a   *)
(* specification moves its own variables and leaves the others at their   *)
(* idle values:                                                            *)
(*   SpecRender    render(): the tile list, the worker threads, the image  *)
(*   SpecInterval  one compiled interval function run on a choice buffer   *)
(*   SpecJitfive   jitfive's test harness: to_jit, to_interval, eval       *)
(*   SpecSqrt      one compiled interval function holding a sqrt           *)
(*   SpecBuildy    buildy() of core/chunky/mod.rs on one expression        *)
(*   SpecPoint     one point function: assembled, called, run, returned    *)
(*   SpecRegisterZero  the runs in which a function returns its value     *)
(*   SpecSwap      the code of one Swap op of jitfive's backend             *)
(***************************************************************************)
EXTENDS Integers, Sequences, FiniteSets, TLC

VARIABLES
    \* ---- render.rs ----
    config,     \* the RenderConfig handed to render()
    shape,      \* the shape the tape describes (fixed for one render)
    rpc,        \* where render() stands
    index,      \* the shared AtomicUsize
    wpc,        \* worker -> position in worker()'s loop
    widx,       \* worker -> the index its last fetch_add returned
    wout,       \* worker -> its `out` vector
    joined,     \* number of handles joined so far
    out,        \* render()'s `out`: the joined workers' vectors, in join order
    image,      \* render()'s `image` buffer
    rendered,   \* history: tile index -> number of times a worker rendered it
    weval,      \* worker -> the interval evaluator it got at its start: the
                \* tape, the choice byte and the simplify flag
    zeroes,     \* whether OwnedIntervalEval::eval clears the choice byte and the
                \* simplify flag before it runs the function
    \* ---- jit/interval.rs ----
    arch,       \* the target_arch the IntervalAssembler was compiled for
    tape,       \* the ops the function was assembled from
    ipc,        \* 0: not running; k: about to run the code of tape[k]
    regs,       \* register -> [lower, upper]
    argX,       \* the X interval of the running call
    argY,       \* the Y interval of the running call
    choices,    \* the bytes at the `choices` pointer; those from ChoiceCount on
                \* lie behind the buffer
    simp,       \* simp[0]: the `simplify` byte; simp[1]: the byte behind it
    ptr,        \* the choice pointer (x1 / rsi), as an offset into `choices`
    simp0,      \* history: simp[0] when the running call started
    trace,      \* history: one record per min/max op the running call ran
    \* ---- jitfive backend/dynasm.rs ----
    jtape,      \* the tape to_jit built the function from
    jpc,        \* 0: not running; k: about to run the code of jtape[k];
                \* Len(jtape) + 1: at the epilogue; Len(jtape) + 2: returned
    sreg,       \* the registers s0..s3 and the fast registers s8, s9
    jx,         \* the x handed to IntervalEval::eval
    jy,         \* the y handed to IntervalEval::eval
    \* ---- core/chunky/mod.rs ----
    ctx,        \* the Context: node -> Op
    root,       \* the root node handed to buildy
    bpc,        \* where buildy stands
    todo,       \* the `todo` stack of the loop buildy is in
    seen,       \* the `seen` set of the loop buildy is in
    weights,    \* pick_inline's `weights` map
    inline,     \* pick_inline's `inline` set
    choice_id,  \* assign_choices' `choice_id` map
    node_dnfs,  \* find_groups' `node_dnfs` map
    dnf_nodes,  \* the map find_groups returns, as GroupIndex -> (key, nodes)
    globals,    \* buildy's `globals` set
    global_node_to_group,
    children,   \* GroupIndex -> the child groups
    parent_count,
    ordered_groups,
    groups,     \* buildy's `groups` vector (with `dnfs`), from index 0
    gi,         \* the group a `for g in` loop of buildy is at
    ni,         \* the node the `for n in g.iter()` of line 424 is at
    ordered_nodes,
    alloc_tapes, \* the lengths of the sub-tapes of lines 392-402
    assigned,
    global_reg_assignments,
    spare,
    \* ---- jit/aarch64/point.rs ----
    ptape,      \* the tape the point function is assembled from
    pphase,     \* "assemble", "run", "returned", or the assertion that failed
    ppc,        \* the op being assembled or about to run
    sregs,      \* the S registers
    frame,      \* the caller's d8, as the entry point saved it
    slots,      \* the spill slots at sp
    cbytes,     \* the choice bytes at x2, from index 0
    count,      \* the byte at x3
    w15,        \* bit 0 of the general register w15
    b15,        \* the low byte of the SIMD register v15
    \* ---- jitfive backend/dynasm.rs, the code of a Swap op ----
    swap,       \* which function the op is in, the next instruction, the fast
                \* register, v3 and the 8 bytes at [sp, #sp_offset]
    swap0       \* history: the fast register and the memory before the op

renderVars ==
    <<config, shape, rpc, index, wpc, widx, wout, joined, out, image, rendered,
      weval, zeroes>>

intervalVars == <<arch, tape, ipc, regs, argX, argY, choices, simp, ptr, simp0, trace>>

jitVars == <<jtape, jpc, sreg, jx, jy>>

chunkyVars ==
    <<ctx, root, bpc, todo, seen, weights, inline, choice_id, node_dnfs, dnf_nodes,
      globals, global_node_to_group, children, parent_count, ordered_groups, groups,
      gi, ni, ordered_nodes, alloc_tapes, assigned, global_reg_assignments, spare>>

pointVars == <<ptape, pphase, ppc, sregs, frame, slots, cbytes, count, w15, b15>>

swapVars == <<swap, swap0>>

vars == <<renderVars, intervalVars, jitVars, chunkyVars, pointVars, swapVars>>

\* The Swap op's variables while another state machine runs.
SwapIdle ==
    /\ swap = <<>>
    /\ swap0 = <<>>

\* The point function's variables while another state machine runs.
PointIdle ==
    /\ ptape = <<>>
    /\ pphase = "idle"
    /\ ppc = 0
    /\ sregs = <<>>
    /\ frame = 0
    /\ slots = <<>>
    /\ cbytes = <<>>
    /\ count = 0
    /\ w15 = 0
    /\ b15 = 0

\* The scheduler's variables while another state machine runs.
ChunkyIdle ==
    /\ ctx = <<>>
    /\ root = 0
    /\ bpc = "idle"
    /\ todo = <<>>
    /\ seen = {}
    /\ weights = <<>>
    /\ inline = {}
    /\ choice_id = <<>>
    /\ node_dnfs = <<>>
    /\ dnf_nodes = <<>>
    /\ globals = {}
    /\ global_node_to_group = <<>>
    /\ children = <<>>
    /\ parent_count = <<>>
    /\ ordered_groups = <<>>
    /\ groups = <<>>
    /\ gi = 0
    /\ ni = 0
    /\ ordered_nodes = <<>>
    /\ alloc_tapes = <<>>
    /\ assigned = <<>>
    /\ global_reg_assignments = <<>>
    /\ spare = {}

-----------------------------------------------------------------------------
(***************************************************************************)
(* Bounds                                                                  *)
(***************************************************************************)
MaxThreads == 2
\* Floats are the integers -MaxF..MaxF and NaN.
MaxF == 2
\* A function without min/max ops is also called with the floats up to MaxWideF.
MaxWideF == 6
\* A sqrt function is called with the squares up to MaxRoot^2, their negatives
\* and NaN.
MaxRoot == 2

-----------------------------------------------------------------------------
(***************************************************************************)
(* f32 values and the instructions the assemblers emit                     *)
(***************************************************************************)

\* f32::NAN; every NaN bit pattern is this one value here.
NaN == 1000

F32 == (-MaxF..MaxF) \cup {NaN}

\* An interval register: <<lower, upper>> (lane 0, lane 1).
Intervals == F32 \X F32

WideF32 == (-MaxWideF..MaxWideF) \cup {NaN}

WideIntervals == WideF32 \X WideF32

IsNaN(a) == a = NaN

Ordered(a, b) == ~IsNaN(a) /\ ~IsNaN(b)

\* fcmgt: a > b, false on NaN.
Fcmgt(a, b) == Ordered(a, b) /\ a > b

\* fcmle #0.0: a <= 0, false on NaN.
FcmleZero(a) == ~IsNaN(a) /\ a <= 0

\* fabs / andps with 0x7fffffff.
Fabs(a) == IF IsNaN(a) THEN NaN ELSE IF a < 0 THEN -a ELSE a

\* fneg / xorps with 0x80000000.
Fneg(a) == IF IsNaN(a) THEN NaN ELSE -a

\* aarch64 fmin / fmax: a NaN operand gives NaN.
Fmin(a, b) == IF ~Ordered(a, b) THEN NaN ELSE IF a < b THEN a ELSE b
Fmax(a, b) == IF ~Ordered(a, b) THEN NaN ELSE IF a > b THEN a ELSE b

\* aarch64 fmaxnm (the step of fmaxnmv): a NaN operand is ignored.
Fmaxnm(a, b) ==
    IF IsNaN(a) THEN b ELSE IF IsNaN(b) THEN a ELSE IF a > b THEN a ELSE b

\* x86 minps / maxps: the second operand unless the first is strictly below
\* (above) it; a NaN operand gives the second operand.
Minps(a, b) == IF Ordered(a, b) /\ a < b THEN a ELSE b
Maxps(a, b) == IF Ordered(a, b) /\ a > b THEN a ELSE b

\* x86 comiss a, b: the flags, as the relation they encode.
Comiss(a, b) ==
    IF ~Ordered(a, b) THEN "unordered"
    ELSE IF a > b THEN "above"
    ELSE IF a < b THEN "below"
    ELSE "equal"

\* ja: CF = 0 and ZF = 0.  jb: CF = 1 (set when unordered too).  jp: PF = 1.
Ja(flags) == flags = "above"
Jb(flags) == flags \in {"below", "unordered"}
Jp(flags) == flags = "unordered"

\* Bits of a byte, and the bitwise or of two bytes.
Bit(a, k) == (a \div (2 ^ k)) % 2

BitOr(a, b) ==
    LET or(k) == IF Bit(a, k) = 1 \/ Bit(b, k) = 1 THEN 2 ^ k ELSE 0
    IN  or(0) + or(1) + or(2) + or(3) + or(4) + or(5) + or(6) + or(7)

\* The choice marks or-ed into a choice byte (bit 1: left, bit 2: right).
CHOICE_LEFT == 2
CHOICE_RIGHT == 4
CHOICE_BOTH == 6

\* The low 16 bits of f32::NAN.to_bits() = 0x7fc00000: what `mov eax, NAN` leaves
\* in ax.
NanBitsLow16 == 0

-----------------------------------------------------------------------------
(***************************************************************************)
(* jit/interval.rs: the code IntervalAssembler emits per op.  A min/max    *)
(* gives the output register, the two bytes at the choice pointer after    *)
(* the op (c0 at the pointer, c1 behind it), the two bytes at the simplify *)
(* pointer, the offsets from each pointer that the code loads and stores,  *)
(* and the branch taken.                                                   *)
(***************************************************************************)

\* (mutant) the store to the simplify byte sits behind the `end` label: the
\* ambiguous branch writes it too.
Aarch64ChoiceStoresAlways(path, outv, w14, c1, s0, s1) ==
    [out |-> outv, path |-> path, c0 |-> w14, c1 |-> c1,
     s0 |-> w14 % 256, s1 |-> s1,
     cLoad |-> {0}, cStore |-> {0}, sStore |-> {0}]

\* aarch64: strb w14, [x2] stores the low byte of w14.
Aarch64Choice(path, outv, w14, c1, s0, s1) ==
    [out |-> outv, path |-> path, c0 |-> w14, c1 |-> c1,
     s0 |-> IF path = "both" THEN s0 ELSE w14 % 256, s1 |-> s1,
     cLoad |-> {0}, cStore |-> {0},
     sStore |-> IF path = "both" THEN {} ELSE {0}]

\* aarch64 build_min
Aarch64BuildMin(lhs, rhs, c0, c1, s0, s1) ==
    LET v4 == <<lhs[2], rhs[2]>>                    \* zip2
        v5 == <<rhs[1], lhs[1]>>                    \* zip1
        gt == <<Fcmgt(v5[1], v4[1]), Fcmgt(v5[2], v4[2])>>
    IN  IF gt[2]                                    \* tst x15, #0x1_0000_0000
        THEN Aarch64Choice("rhs", rhs, BitOr(c0, CHOICE_RIGHT), c1, s0, s1)
        ELSE IF ~gt[1]                              \* tst x15, #0x1
        THEN Aarch64Choice("both", <<Fmin(lhs[1], rhs[1]), Fmin(lhs[2], rhs[2])>>,
                           BitOr(c0, CHOICE_BOTH), c1, s0, s1)
        ELSE Aarch64Choice("lhs", lhs, BitOr(c0, CHOICE_LEFT), c1, s0, s1)

\* aarch64 build_max
Aarch64BuildMax(lhs, rhs, c0, c1, s0, s1) ==
    LET v4 == <<lhs[2], rhs[2]>>
        v5 == <<rhs[1], lhs[1]>>
        gt == <<Fcmgt(v5[1], v4[1]), Fcmgt(v5[2], v4[2])>>
    IN  IF gt[2]
        THEN Aarch64Choice("lhs", lhs, BitOr(c0, CHOICE_LEFT), c1, s0, s1)
        ELSE IF ~gt[1]
        THEN Aarch64Choice("both", <<Fmax(lhs[1], rhs[1]), Fmax(lhs[2], rhs[2])>>,
                           BitOr(c0, CHOICE_BOTH), c1, s0, s1)
        ELSE Aarch64Choice("rhs", rhs, BitOr(c0, CHOICE_RIGHT), c1, s0, s1)

\* x86_64: `mov ax, [rsi]` ... `mov [rsi], ax` move 16 bits, `mov [rdx], cx` too.
X86Choice(path, outv, ax, s0, s1) ==
    [out |-> outv, path |-> path, c0 |-> ax % 256, c1 |-> ax \div 256,
     s0 |-> IF path \in {"lhs", "rhs"} THEN 1 ELSE s0,
     s1 |-> IF path \in {"lhs", "rhs"} THEN 0 ELSE s1,
     cLoad |-> {0, 1}, cStore |-> {0, 1},
     sStore |-> IF path \in {"lhs", "rhs"} THEN {0, 1} ELSE {}]

\* x86_64: the `or ax, CHOICE_*` of a branch; at `nan:` the following
\* `mov eax, NAN` replaces ax.
X86Or(ax, mark) == (ax \div 256) * 256 + BitOr(ax % 256, mark)

X86NanAx(ax) == NanBitsLow16

\* x86_64 build_min
X86BuildMin(lhs, rhs, c0, c1, s0, s1) ==
    LET ax == c0 + 256 * c1                         \* mov ax, [rsi]
        f1 == Comiss(lhs[2], rhs[1])                \* lhs.upper, rhs.lower
        f2 == Comiss(rhs[2], lhs[1])                \* rhs.upper, lhs.lower
        nan == X86Choice("nan", <<NaN, NaN>>, X86NanAx(X86Or(ax, CHOICE_BOTH)), s0, s1)
    IN  IF Jp(f1) THEN nan
        ELSE IF Jb(f1) THEN X86Choice("lhs", lhs, X86Or(ax, CHOICE_LEFT), s0, s1)
        ELSE IF Jp(f2) THEN nan
        ELSE IF Jb(f2) THEN X86Choice("rhs", rhs, X86Or(ax, CHOICE_RIGHT), s0, s1)
        ELSE X86Choice("both", <<Minps(lhs[1], rhs[1]), Minps(lhs[2], rhs[2])>>,
                       X86Or(ax, CHOICE_BOTH), s0, s1)

\* x86_64 build_max
X86BuildMax(lhs, rhs, c0, c1, s0, s1) ==
    LET ax == c0 + 256 * c1
        f1 == Comiss(lhs[2], rhs[1])
        f2 == Comiss(rhs[2], lhs[1])
        nan == X86Choice("nan", <<NaN, NaN>>, X86NanAx(X86Or(ax, CHOICE_BOTH)), s0, s1)
    IN  IF Jp(f1) THEN nan
        ELSE IF Jb(f1) THEN X86Choice("rhs", rhs, X86Or(ax, CHOICE_RIGHT), s0, s1)
        ELSE IF Jp(f2) THEN nan
        ELSE IF Jb(f2) THEN X86Choice("lhs", lhs, X86Or(ax, CHOICE_LEFT), s0, s1)
        ELSE X86Choice("both", <<Maxps(lhs[1], rhs[1]), Maxps(lhs[2], rhs[2])>>,
                       X86Or(ax, CHOICE_BOTH), s0, s1)

\* aarch64 build_abs.  fabs on .s2 and a write to d4 clear lanes 2 and 3.
Aarch64BuildAbs(lhs) ==
    LET le == <<FcmleZero(lhs[1]), FcmleZero(lhs[2])>>      \* fcmle v4.s2, lhs, #0.0
        ab == <<Fabs(lhs[1]), Fabs(lhs[2]), 0, 0>>          \* fabs
        mx == Fmaxnm(Fmaxnm(ab[1], ab[2]), Fmaxnm(ab[3], ab[4]))  \* fmaxnmv s4, out.s4
    IN  IF le[2] THEN <<ab[2], ab[1]>>                      \* upper_lz: rev64
        ELSE IF ~le[1] THEN <<ab[1], ab[2]>>                \* b.eq -> end
        ELSE <<0, mx>>                                      \* [mx, 0], then rev64

\* pshufd dst, src, imm: lane i of dst is lane (imm / 4^i) % 4 of src.
Pshufd(src, imm) == [i \in 1..4 |-> src[((imm \div (4 ^ (i - 1))) % 4) + 1]]

\* (mutant) the straddle branch without the compare-and-swap: the upper bound
\* is |upper| even when |lower| is larger.
X86BuildAbsNoSwap(lhs) ==
    IF Comiss(0, lhs[2]) = "above" THEN <<Fneg(lhs[2]), Fneg(lhs[1])>>
    ELSE IF Comiss(0, lhs[1]) = "above" THEN <<0, Fabs(lhs[2])>>
    ELSE lhs

\* x86_64 build_abs.  movq xmm, xmm clears lanes 2 and 3.
X86BuildAbs(lhs) ==
    LET neg == <<Fneg(lhs[2]), Fneg(lhs[1])>>               \* xorps, pshufd .., 1
        ab == <<Fabs(lhs[1]), Fabs(lhs[2]), 0, 0>>          \* movq, andps
        hiLo == Pshufd(ab, 241)                             \* 0b11110001
        swapped == IF Ja(Comiss(hiLo[1], ab[1])) THEN ab
                   ELSE Pshufd(ab, 243)                     \* 0b11110011
        clr == Pshufd(swapped, 247)                         \* 0b11110111
    IN  IF Ja(Comiss(0, lhs[2])) THEN neg                   \* ja >neg
        ELSE IF Ja(Comiss(0, lhs[1])) THEN <<clr[1], clr[2]>>   \* ja >straddle
        ELSE lhs

\* (mutant) an input with lower > upper is turned into [NaN, NaN].
BuildInputNanIfEmpty(x, y, arg) ==
    LET i == IF arg = 0 THEN x ELSE y
    IN  IF Ordered(i[1], i[2]) /\ i[1] > i[2] THEN <<NaN, NaN>> ELSE i

\* build_input (both architectures): the 64 bits of argument `arg` (X in v0 /
\* [rbp - 8], Y in v1 / [rbp - 16]) are copied to the register.
BuildInput(x, y, arg) == IF arg = 0 THEN x ELSE y

Archs == {"aarch64", "x86_64"}

BuildMin(a, lhs, rhs, c0, c1, s0, s1) ==
    IF a = "aarch64" THEN Aarch64BuildMin(lhs, rhs, c0, c1, s0, s1)
    ELSE X86BuildMin(lhs, rhs, c0, c1, s0, s1)

BuildMax(a, lhs, rhs, c0, c1, s0, s1) ==
    IF a = "aarch64" THEN Aarch64BuildMax(lhs, rhs, c0, c1, s0, s1)
    ELSE X86BuildMax(lhs, rhs, c0, c1, s0, s1)

BuildAbs(a, lhs) ==
    IF a = "aarch64" THEN Aarch64BuildAbs(lhs) ELSE X86BuildAbs(lhs)

-----------------------------------------------------------------------------
(***************************************************************************)
(* render.rs                                                               *)
(***************************************************************************)

\* Sizes a RenderConfig is drawn from (usize values).
ConfigSizes == {0, 4, 8}

RenderConfig ==
    [image_size : ConfigSizes, tile_size : ConfigSizes,
     subtile_size : ConfigSizes, threads : 0..MaxThreads]

Shapes == {"all", "none", "half", "spot", "union", "inter"}

Workers == 1..MaxThreads

\* usize `a % b == 0`; a zero divisor panics.
Divides(b, a) == b # 0 /\ a % b = 0

\* The three assertions at the head of render().
ConfigAsserts(c) ==
    /\ Divides(c.tile_size, c.image_size)
    /\ Divides(c.subtile_size, c.tile_size)
    /\ Divides(4, c.subtile_size)

\* render()'s tile list: i outer, j inner, corner [i * tile_size, j * tile_size].
TilesPerSide(c) == c.image_size \div c.tile_size

Tiles(c) ==
    [k \in 1..(TilesPerSide(c) * TilesPerSide(c)) |->
        <<((k - 1) \div TilesPerSide(c)) * c.tile_size,
          ((k - 1) % TilesPerSide(c)) * c.tile_size>>]

\* The operands of a shape that is a min or a max: the tapes simplify() makes
\* of it.
Lhs(s) == IF s = "union" THEN "union.lhs" ELSE "inter.lhs"
Rhs(s) == IF s = "union" THEN "union.rhs" ELSE "inter.rhs"

\* The value of the shape at a pixel position (negative: inside).  "union" is
\* the min and "inter" the max of its two operands.
ShapeValue(s, c, px, py) ==
    CASE s = "all"       -> -1
      [] s = "none"      -> 1
      [] s = "half"      -> 2 * px - c.image_size
      [] s = "spot"      -> (px + py) - 5
      [] s = "union.lhs" -> px - 7
      [] s = "union.rhs" -> 6 - py
      [] s = "union"     -> IF px - 7 < 6 - py THEN px - 7 ELSE 6 - py
      [] s = "inter.lhs" -> 2 - px
      [] s = "inter.rhs" -> py - 1
      [] OTHER           -> IF 2 - px > py - 1 THEN 2 - px ELSE py - 1

HasChoice(s) == s \in {"union", "inter"}

\* The interval of a tape without min or max on the region
\* [cx, cx + size] x [cy, cy + size]: such a tape adds and subtracts, and its
\* bounds are its values at the corners of the region.
FieldInterval(s, c, cx, cy, size) ==
    LET vals == {ShapeValue(s, c, px, py) : px \in {cx, cx + size}, py \in {cy, cy + size}}
    IN  <<CHOOSE v \in vals : \A u \in vals : v <= u,
          CHOOSE v \in vals : \A u \in vals : v >= u>>

\* get_evaluator(): an evaluator of the tape, choice byte and simplify flag
\* clear.
Evaluator(s) == [tape |-> s, choice |-> 0, simplify |-> 0]

\* OwnedIntervalEval::eval on a region: the function IntervalAssembler built
\* for the tape runs on the evaluator's choice byte and simplify flag.  Gives
\* the interval and the evaluator as the call leaves it.
EvalInterval(e, c, cx, cy, size) ==
    LET c0 == IF zeroes THEN 0 ELSE e.choice
        s0 == IF zeroes THEN 0 ELSE e.simplify
        l == FieldInterval(Lhs(e.tape), c, cx, cy, size)
        r == FieldInterval(Rhs(e.tape), c, cx, cy, size)
        m == IF e.tape = "union" THEN BuildMin(arch, l, r, c0, 0, s0, 0)
             ELSE BuildMax(arch, l, r, c0, 0, s0, 0)
    IN  IF HasChoice(e.tape)
        THEN [out |-> m.out, eval |-> [e EXCEPT !.choice = m.c0, !.simplify = m.s0]]
        ELSE [out |-> FieldInterval(e.tape, c, cx, cy, size),
              eval |-> [e EXCEPT !.choice = c0, !.simplify = s0]]

\* OwnedIntervalEval::simplify: the tape with a Left-only choice replaced by
\* its left operand and a Right-only choice by its right operand; the tape
\* itself when the simplify flag is clear.
Simplify(e) ==
    IF e.simplify = 0 \/ ~HasChoice(e.tape) THEN e.tape
    ELSE IF e.choice = CHOICE_LEFT THEN Lhs(e.tape)
    ELSE IF e.choice = CHOICE_RIGHT THEN Rhs(e.tape)
    ELSE e.tape

\* (mutant) the sub-tape is made before the evaluator has seen the region:
\* the choices are those of the region it saw last.
SubTapeBeforeEval(before, after) == Simplify(before)

\* render_tile_recurse: `let sub_tape = eval.simplify()`, on the evaluator as
\* eval() on the region left it.
SubTape(before, after) == Simplify(after)

\* render_tile_recurse: the `fill` of an interval; `top` is
\* tile_sizes.len() > 1.
Fill(i, top) ==
    IF i[2] < 0 THEN (IF top THEN "FilledTile" ELSE "FilledSubtile")
    ELSE IF i[1] > 0 THEN (IF top THEN "EmptyTile" ELSE "EmptySubtile")
    ELSE "None"

\* render_pixels: four pixels from `corner`, each Filled or Empty.
RenderPixels(s, c, cx, cy) ==
    {[idx |-> (cx % c.tile_size) + i + (cy % c.tile_size) * c.tile_size,
      val |-> IF ShapeValue(s, c, cx + i, cy) < 0 THEN "Filled" ELSE "Empty",
      by  |-> <<"pixels", cx, cy, i>>] : i \in 0..3}

\* The fill branch of render_tile_recurse: size x size pixels from the corner.
FillWrites(c, cx, cy, size, pixel) ==
    {[idx |-> x + (cx % c.tile_size) + (y + (cy % c.tile_size)) * c.tile_size,
      val |-> pixel,
      by  |-> <<"fill", cx, cy, x, y>>] : x \in 0..(size - 1), y \in 0..(size - 1)}

\* render_tile_recurse with tile_sizes = [subtile_size] on the evaluator e:
\* the writes it makes to `out` and the evaluator as it leaves it.
SubtileWrites(e, c, cx, cy) ==
    LET r == EvalInterval(e, c, cx, cy, c.subtile_size)
        fill == Fill(r.out, FALSE)
        sub_tape == SubTape(e, r.eval)
    IN  [eval |-> r.eval,
         writes |->
            IF fill # "None" THEN FillWrites(c, cx, cy, c.subtile_size, fill)
            ELSE UNION {RenderPixels(sub_tape, c, cx + i * 4, cy + j) :
                            i \in 0..((c.subtile_size \div 4) - 1),
                            j \in 0..(c.subtile_size - 1)}]

\* render_tile_recurse: the loops `for j in 0..n { for i in 0..n {`, all on
\* the one sub_eval: pass k = i + j * n runs on the evaluator as pass k - 1
\* left it.
Subtiles(sub_eval, c, cx, cy) ==
    LET n == c.tile_size \div c.subtile_size
        pass[k \in 0..(n * n - 1)] ==
            SubtileWrites(IF k = 0 THEN sub_eval ELSE pass[k - 1].eval, c,
                          cx + (k % n) * c.subtile_size,
                          cy + (k \div n) * c.subtile_size)
    IN  UNION {pass[k].writes : k \in 0..(n * n - 1)}

\* render_tile_recurse with tile_sizes = [tile_size, subtile_size] on the
\* evaluator e: the set of writes it makes to `out`, each with the place that
\* made it, and the evaluator as it leaves it.
TileWrites(e, c, cx, cy) ==
    LET r == EvalInterval(e, c, cx, cy, c.tile_size)
        fill == Fill(r.out, TRUE)
    IN  [eval |-> r.eval,
         writes |->
            IF fill # "None" THEN FillWrites(c, cx, cy, c.tile_size, fill)
            ELSE Subtiles(Evaluator(SubTape(e, r.eval)), c, cx, cy)]

\* A buffer of Option<Pixel> after a set of writes: per slot the value (None when
\* never written) and the number of writes that hit it.
Buffer(len, writes) ==
    [p \in 0..(len - 1) |->
        LET hits == {w \in writes : w.idx = p}
        IN  [val |-> IF hits = {} THEN "None" ELSE (CHOOSE w \in hits : TRUE).val,
             n   |-> Cardinality(hits)]]

\* (mutant) the bound check one too early: the last tile is never rendered.
PastEndOffByOne(i, n) == i + 1 >= n

\* worker(): `index >= tiles.len()` ends the loop.
PastEnd(i, n) == i >= n

\* worker(): the value fetch_add(1) leaves in the counter.
FetchAdd(i) == i + 1

NoWorkers == [w \in Workers |-> "idle"]

InitRender ==
    /\ ChunkyIdle
    /\ PointIdle
    /\ SwapIdle
    /\ config \in RenderConfig
    /\ shape \in Shapes
    /\ rpc = "start"
    /\ index = 0
    /\ wpc = NoWorkers
    /\ widx = [w \in Workers |-> 0]
    /\ wout = [w \in Workers |-> <<>>]
    /\ joined = 0
    /\ out = <<>>
    /\ image = <<>>
    /\ rendered = <<>>
    /\ weval = [w \in Workers |-> Evaluator(shape)]
    \* a tape without min or max has no choice byte to clear and the same
    \* code on both architectures
    /\ zeroes \in (IF HasChoice(shape) THEN BOOLEAN ELSE {TRUE})
    /\ arch \in (IF HasChoice(shape) THEN Archs ELSE {"aarch64"})
    /\ tape = <<>>
    /\ ipc = -1
    /\ regs = <<>>
    /\ argX = <<0, 0>>
    /\ argY = <<0, 0>>
    /\ choices = <<>>
    /\ simp = <<>>
    /\ ptr = 0
    /\ simp0 = 0
    /\ trace = <<>>
    /\ jtape = <<>>
    /\ jpc = -1
    /\ sreg = <<>>
    /\ jx = <<0, 0>>
    /\ jy = <<0, 0>>

\* render(): the assertions, the tile list, the counter, the spawns.
RenderSpawn ==
    /\ rpc = "start"
    /\ IF ConfigAsserts(config)
       THEN /\ rpc' = "joining"
            /\ wpc' = [w \in Workers |-> IF w <= config.threads THEN "fetch" ELSE "idle"]
            /\ rendered' = [k \in 1..Len(Tiles(config)) |-> 0]
       ELSE /\ rpc' = "panic_assert"
            /\ UNCHANGED <<wpc, rendered>>
    /\ index' = 0
    /\ UNCHANGED <<config, shape, zeroes, widx, wout, joined, out, image>>
    /\ UNCHANGED weval
    /\ UNCHANGED <<intervalVars, jitVars, chunkyVars, pointVars, swapVars>>

\* worker(): index = i.fetch_add(1); break when past the end.
WorkerFetch(w) ==
    /\ wpc[w] = "fetch"
    /\ widx' = [widx EXCEPT ![w] = index]
    /\ index' = FetchAdd(index)
    /\ wpc' = [wpc EXCEPT ![w] =
                 IF PastEnd(index, Len(Tiles(config))) THEN "returned" ELSE "render"]
    /\ UNCHANGED <<config, shape, zeroes, rpc, wout, joined, out, image, rendered>>
    /\ UNCHANGED weval
    /\ UNCHANGED <<intervalVars, jitVars, chunkyVars, pointVars, swapVars>>

\* worker(): render tiles[index] into a fresh buffer, unwrap it, push it.
WorkerRender(w) ==
    /\ wpc[w] = "render"
    /\ LET tile == Tiles(config)[widx[w] + 1]
           r == TileWrites(weval[w], config, tile[1], tile[2])
           pixels == Buffer(config.tile_size * config.tile_size, r.writes)
       IN  /\ rendered' = [rendered EXCEPT ![widx[w] + 1] = @ + 1]
           /\ weval' = [weval EXCEPT ![w] = r.eval]
           /\ IF \E p \in DOMAIN pixels : pixels[p].val = "None"
              THEN /\ wpc' = [wpc EXCEPT ![w] = "panic_unwrap"]
                   /\ wout' = wout
              ELSE /\ wpc' = [wpc EXCEPT ![w] = "fetch"]
                   /\ wout' = [wout EXCEPT ![w] =
                                 Append(@, [tile |-> tile, data |-> pixels])]
    /\ UNCHANGED <<config, shape, zeroes, rpc, index, widx, joined, out, image>>
    /\ UNCHANGED <<intervalVars, jitVars, chunkyVars, pointVars, swapVars>>

\* render(): h.join().unwrap() on the next handle, in spawn order.
RenderJoin ==
    /\ rpc = "joining"
    /\ joined < config.threads
    /\ wpc[joined + 1] \in {"returned", "panic_unwrap"}
    /\ IF wpc[joined + 1] = "returned"
       THEN /\ out' = out \o wout[joined + 1]
            /\ joined' = joined + 1
            /\ rpc' = rpc
       ELSE /\ rpc' = "panic_join"
            /\ UNCHANGED <<out, joined>>
    /\ UNCHANGED <<config, shape, zeroes, index, wpc, widx, wout, image, rendered>>
    /\ UNCHANGED weval
    /\ UNCHANGED <<intervalVars, jitVars, chunkyVars, pointVars, swapVars>>

\* The writes render() makes to `image` for one rendered tile.
ImageWrites(c, k, entry) ==
    {[idx |-> (i + entry.tile[1])
                + (c.image_size - (j + entry.tile[2]) - 1) * c.image_size,
      val |-> entry.data[i + j * c.tile_size].val,
      by  |-> <<k, i, j>>] : i \in 0..(c.tile_size - 1), j \in 0..(c.tile_size - 1)}

\* render(): all handles joined; fill `image` from `out`.
RenderMerge ==
    /\ rpc = "joining"
    /\ joined = config.threads
    /\ image' = Buffer(config.image_size * config.image_size,
                       UNION {ImageWrites(config, k, out[k]) : k \in 1..Len(out)})
    /\ rpc' = "merged"
    /\ UNCHANGED <<config, shape, zeroes, index, wpc, widx, wout, joined, out, rendered>>
    /\ UNCHANGED weval
    /\ UNCHANGED <<intervalVars, jitVars, chunkyVars, pointVars, swapVars>>

\* render(): image.into_iter().map(Option::unwrap).collect()
RenderUnwrap ==
    /\ rpc = "merged"
    /\ rpc' = IF \E p \in DOMAIN image : image[p].val = "None"
              THEN "panic_unwrap" ELSE "done"
    /\ UNCHANGED <<config, shape, zeroes, index, wpc, widx, wout, joined, out, image, rendered>>
    /\ UNCHANGED weval
    /\ UNCHANGED <<intervalVars, jitVars, chunkyVars, pointVars, swapVars>>

NextRender ==
    \/ RenderSpawn
    \/ \E w \in Workers : WorkerFetch(w)
    \/ \E w \in Workers : WorkerRender(w)
    \/ RenderJoin
    \/ RenderMerge
    \/ RenderUnwrap

-----------------------------------------------------------------------------
(***************************************************************************)
(* jit/interval.rs: a function assembled from a tape, and calls of it      *)
(***************************************************************************)

InputOp(o, arg) == [op |-> "Input", out |-> o, lhs |-> arg, rhs |-> 0]
AbsOp(o, l)     == [op |-> "Abs", out |-> o, lhs |-> l, rhs |-> 0]
MinOp(o, l, r)  == [op |-> "Min", out |-> o, lhs |-> l, rhs |-> r]
MaxOp(o, l, r)  == [op |-> "Max", out |-> o, lhs |-> l, rhs |-> r]

\* The tapes a function is assembled from: x, abs(x), min(x, y), max(x, y),
\* min(x, max(x, abs(x))).  Input 0 is X, input 1 is Y.
Tapes ==
    { <<InputOp(0, 0)>>,
      <<InputOp(0, 0), AbsOp(0, 0)>>,
      <<InputOp(0, 0), InputOp(1, 1), MinOp(0, 0, 1)>>,
      <<InputOp(0, 0), InputOp(1, 1), MaxOp(0, 0, 1)>>,
      <<InputOp(0, 0), AbsOp(1, 0), MaxOp(1, 0, 1), MinOp(0, 0, 1)>> }

\* Whether the function reads input `arg` (a build_input was emitted for it).
ReadsInput(t, arg) == \E k \in DOMAIN t : t[k].op = "Input" /\ t[k].lhs = arg

IsChoiceOp(o) == o.op \in {"Min", "Max"}

\* tape.choice_count: the length of the choice buffer.
ChoiceCount(t) == Cardinality({k \in DOMAIN t : IsChoiceOp(t[k])})

\* Offsets from the `choices` pointer that the model keeps: the buffer and the
\* bytes behind it that a two-byte access can reach.
ChoiceOffsets == 0..2

\* What the memory behind the buffers may hold when the function is called.
BehindBytes == {0, 255}

Regs == 0..1

InitInterval ==
    /\ ChunkyIdle
    /\ PointIdle
    /\ SwapIdle
    /\ arch \in Archs
    /\ tape \in Tapes
    /\ ipc = 0
    /\ regs = [r \in Regs |-> <<0, 0>>]
    /\ argX = <<0, 0>>
    /\ argY = <<0, 0>>
    /\ config = [image_size |-> 0, tile_size |-> 0, subtile_size |-> 0, threads |-> 0]
    /\ shape = "none"
    /\ rpc = "idle"
    /\ index = 0
    /\ wpc = [w \in 1..MaxThreads |-> "idle"]
    /\ widx = [w \in 1..MaxThreads |-> 0]
    /\ wout = [w \in 1..MaxThreads |-> <<>>]
    /\ joined = 0
    /\ out = <<>>
    /\ image = <<>>
    /\ rendered = <<>>
    /\ weval = [w \in 1..MaxThreads |-> Evaluator("none")]
    /\ zeroes = FALSE
    /\ \E b \in BehindBytes :
        /\ choices = [i \in ChoiceOffsets |-> IF i < ChoiceCount(tape) THEN 0 ELSE b]
        /\ simp = [i \in 0..1 |-> IF i = 0 THEN 0 ELSE b]
    /\ ptr = 0
    /\ simp0 = 0
    /\ trace = <<>>
    /\ jtape = <<>>
    /\ jpc = -1
    /\ sreg = <<>>
    /\ jx = <<0, 0>>
    /\ jy = <<0, 0>>

\* The caller zeroes the choice buffer and the simplify byte between calls.
IntervalZero ==
    /\ ipc = 0
    /\ choices' = [i \in ChoiceOffsets |-> IF i < ChoiceCount(tape) THEN 0 ELSE choices[i]]
    /\ simp' = [simp EXCEPT ![0] = 0]
    /\ UNCHANGED <<arch, tape, ipc, regs, argX, argY, ptr, simp0, trace>>
    /\ UNCHANGED <<renderVars, jitVars, chunkyVars, pointVars, swapVars>>

\* What the variables of a call hold while no call runs.
NoInterval == <<0, 0>>
NoRegs == [r \in Regs |-> NoInterval]

\* A call: X and Y arrive (an input the function never reads is left out), the
\* choice pointer is at the start of the buffer.  Every tape writes a register
\* before it reads it, so what the registers hold on entry is not kept.
IntervalCall ==
    /\ ipc = 0
    /\ argX' \in (IF ChoiceCount(tape) = 0 THEN WideIntervals ELSE Intervals)
    /\ argY' \in (IF ReadsInput(tape, 1) THEN Intervals ELSE {NoInterval})
    /\ ipc' = 1
    /\ ptr' = 0
    /\ simp0' = simp[0]
    /\ trace' = <<>>
    /\ regs' = NoRegs
    /\ UNCHANGED <<arch, tape, choices, simp>>
    /\ UNCHANGED <<renderVars, jitVars, chunkyVars, pointVars, swapVars>>

\* The record a min/max op leaves in the history.
TraceEntry(o, lhs, rhs, r) ==
    [op |-> o.op, k |-> ptr, lhs |-> lhs, rhs |-> rhs, out |-> r.out, path |-> r.path,
     pre |-> choices[ptr], post |-> r.c0,
     nextPre |-> choices[ptr + 1], nextPost |-> r.c1,
     sPre |-> simp[0], sPost |-> r.s0,
     cLoad |-> {ptr + d : d \in r.cLoad}, cStore |-> {ptr + d : d \in r.cStore},
     sStore |-> r.sStore]

\* The code of one build_min / build_max, run.
StepChoice(o) ==
    LET lhs == regs[o.lhs]
        rhs == regs[o.rhs]
        r == IF o.op = "Min"
             THEN BuildMin(arch, lhs, rhs, choices[ptr], choices[ptr + 1], simp[0], simp[1])
             ELSE BuildMax(arch, lhs, rhs, choices[ptr], choices[ptr + 1], simp[0], simp[1])
    IN  /\ regs' = [regs EXCEPT ![o.out] = r.out]
        /\ choices' = [choices EXCEPT ![ptr] = r.c0, ![ptr + 1] = r.c1]
        /\ simp' = [simp EXCEPT ![0] = r.s0, ![1] = r.s1]
        /\ ptr' = ptr + 1                   \* strb .., [x1], #1  /  add rsi, 1
        /\ trace' = Append(trace, TraceEntry(o, lhs, rhs, r))

\* The code of one op of the tape, run.
IntervalStep ==
    /\ ipc \in 1..Len(tape)
    /\ LET o == tape[ipc]
       IN  CASE o.op = "Input" ->
                    /\ regs' = [regs EXCEPT ![o.out] = BuildInput(argX, argY, o.lhs)]
                    /\ UNCHANGED <<choices, simp, ptr, trace>>
             [] o.op = "Abs" ->
                    /\ regs' = [regs EXCEPT ![o.out] = BuildAbs(arch, regs[o.lhs])]
                    /\ UNCHANGED <<choices, simp, ptr, trace>>
             [] OTHER -> StepChoice(o)
    /\ ipc' = ipc + 1
    /\ UNCHANGED <<arch, tape, argX, argY, simp0>>
    /\ UNCHANGED <<renderVars, jitVars, chunkyVars, pointVars, swapVars>>

\* finalize: the function returns with register 0 as its value.
Returning == ipc = Len(tape) + 1
ReturnValue == regs[0]

\* The function has returned; the call's frame is gone.
IntervalReturn ==
    /\ Returning
    /\ ipc' = 0
    /\ argX' = NoInterval
    /\ argY' = NoInterval
    /\ regs' = NoRegs
    /\ ptr' = 0
    /\ trace' = <<>>
    /\ simp0' = 0
    /\ UNCHANGED <<arch, tape, choices, simp>>
    /\ UNCHANGED <<renderVars, jitVars, chunkyVars, pointVars, swapVars>>

NextInterval ==
    \/ IntervalZero
    \/ IntervalCall
    \/ IntervalStep
    \/ IntervalReturn

-----------------------------------------------------------------------------
(***************************************************************************)
(* jit/interval.rs: build_sqrt, and the function assembled from sqrt(x)    *)
(***************************************************************************)

\* The floats a sqrt function is called with: fsqrt is exact on them.
SqrtF32 == {r * r : r \in 0..MaxRoot} \cup {-(r * r) : r \in 1..MaxRoot} \cup {NaN}

SqrtIntervals == SqrtF32 \X SqrtF32

\* fsqrt / sqrtss / vsqrtps on one lane: NaN for a NaN or a negative operand.
Fsqrt(a) ==
    IF IsNaN(a) \/ a < 0 THEN NaN
    ELSE CHOOSE r \in 0..a : r * r = a

\* aarch64 build_sqrt
Aarch64BuildSqrt(lhs) ==
    LET le == <<FcmleZero(lhs[1]), FcmleZero(lhs[2])>>  \* fcmle v4.s2, lhs, #0.0
    IN  IF le[2] THEN <<NaN, NaN>>                      \* b.ne -> upper_lz
        ELSE IF le[1] THEN <<0, Fsqrt(lhs[2])>>         \* b.ne -> lower_lz
        ELSE <<Fsqrt(lhs[1]), Fsqrt(lhs[2])>>           \* fsqrt .s2

\* x86_64 build_sqrt
X86BuildSqrt(lhs) ==
    LET xmm1 == Pshufd(<<lhs[1], lhs[2], 0, 0>>, 1)     \* lane 0: lhs.upper
        xmm0 == <<Fsqrt(xmm1[1]), 0, 0, 0>>             \* pxor xmm0; sqrtss xmm0, xmm1
        lz == Pshufd(xmm0, 243)                         \* 0b11110011
    IN  IF Ja(Comiss(0, xmm1[1])) THEN <<NaN, NaN>>     \* ja >upper_lz
        ELSE IF Ja(Comiss(0, lhs[1])) THEN <<lz[1], lz[2]>>     \* ja >lower_lz
        ELSE <<Fsqrt(lhs[1]), Fsqrt(lhs[2])>>           \* vsqrtps

BuildSqrt(a, lhs) ==
    IF a = "aarch64" THEN Aarch64BuildSqrt(lhs) ELSE X86BuildSqrt(lhs)

SqrtOp(o, l) == [op |-> "Sqrt", out |-> o, lhs |-> l, rhs |-> 0]

\* The tapes of a sqrt function: sqrt(x), and sqrt(abs(x)).
SqrtTapes ==
    { <<InputOp(0, 0), SqrtOp(0, 0)>>,
      <<InputOp(0, 0), AbsOp(0, 0), SqrtOp(0, 0)>> }

InitSqrt ==
    /\ ChunkyIdle
    /\ PointIdle
    /\ SwapIdle
    /\ arch \in Archs
    /\ tape \in SqrtTapes
    /\ ipc = 0
    /\ regs = NoRegs
    /\ argX = NoInterval
    /\ argY = NoInterval
    /\ choices = [i \in ChoiceOffsets |-> 0]
    /\ simp = [i \in 0..1 |-> 0]
    /\ ptr = 0
    /\ simp0 = 0
    /\ trace = <<>>
    /\ config = [image_size |-> 0, tile_size |-> 0, subtile_size |-> 0, threads |-> 0]
    /\ shape = "none"
    /\ rpc = "idle"
    /\ index = 0
    /\ wpc = [w \in 1..MaxThreads |-> "idle"]
    /\ widx = [w \in 1..MaxThreads |-> 0]
    /\ wout = [w \in 1..MaxThreads |-> <<>>]
    /\ joined = 0
    /\ out = <<>>
    /\ image = <<>>
    /\ rendered = <<>>
    /\ weval = [w \in 1..MaxThreads |-> Evaluator("none")]
    /\ zeroes = FALSE
    /\ jtape = <<>>
    /\ jpc = -1
    /\ sreg = <<>>
    /\ jx = <<0, 0>>
    /\ jy = <<0, 0>>

\* A call of the sqrt function.
SqrtCall ==
    /\ ipc = 0
    /\ argX' \in SqrtIntervals
    /\ argY' = NoInterval
    /\ ipc' = 1
    /\ regs' = NoRegs
    /\ UNCHANGED <<arch, tape, choices, simp, ptr, simp0, trace>>
    /\ UNCHANGED <<renderVars, jitVars, chunkyVars, pointVars, swapVars>>

\* The code of one op of the sqrt function, run.
SqrtStep ==
    /\ ipc \in 1..Len(tape)
    /\ LET o == tape[ipc]
       IN  regs' = [regs EXCEPT ![o.out] =
                       CASE o.op = "Input" -> BuildInput(argX, argY, o.lhs)
                         [] o.op = "Abs"   -> BuildAbs(arch, regs[o.lhs])
                         [] OTHER          -> BuildSqrt(arch, regs[o.lhs])]
    /\ ipc' = ipc + 1
    /\ UNCHANGED <<arch, tape, argX, argY, choices, simp, ptr, simp0, trace>>
    /\ UNCHANGED <<renderVars, jitVars, chunkyVars, pointVars, swapVars>>

NextSqrt ==
    \/ SqrtCall
    \/ SqrtStep
    \/ IntervalReturn

-----------------------------------------------------------------------------
(***************************************************************************)
(* jitfive backend/dynasm.rs: the function the tests' to_jit builds, called *)
(* through the handle to_interval gives.                                   *)
(***************************************************************************)

\* We can use registers v8-v15 and v16-v31; the tape's register r is the
\* machine register r + FAST_REG_OFFSET.
FAST_REG_OFFSET == 8

JInput(o, arg) == [op |-> "Input", out |-> o, lhs |-> arg]
JAbsReg(o, l)  == [op |-> "AbsReg", out |-> o, lhs |-> l]

\* The tapes of test_interval (x) and test_i_abs (abs(x)): the input goes to
\* register 0, the result is left in register 0.
JitTapes == { <<JInput(0, 0)>>, <<JInput(0, 0), JAbsReg(0, 0)>> }

SRegs == {0, 1, 2, 3, FAST_REG_OFFSET, FAST_REG_OFFSET + 1}

\* from_tape: the code emitted for one op, as its effect on the S registers.
\*   Input:  fmov S(out_reg), S(input)
\*   AbsReg: fabs S(out_reg), S(lhs_reg)
FromTapeOp(o, s) ==
    IF o.op = "Input"
    THEN [s EXCEPT ![o.out + FAST_REG_OFFSET] = s[o.lhs]]
    ELSE [s EXCEPT ![o.out + FAST_REG_OFFSET] = Fabs(s[o.lhs + FAST_REG_OFFSET])]

\* from_tape: `fmov s0, S(FAST_REG_OFFSET)` before the registers are restored.
FromTapeReturn(s) == [s EXCEPT ![0] = s[FAST_REG_OFFSET]]

\* IntervalFunc, extern "C": X = [f32; 2] arrives in s0, s1 and Y in s2, s3.
IntervalFuncArgs(x, y) ==
    [r \in SRegs |-> CASE r = 0 -> x[1] [] r = 1 -> x[2]
                       [] r = 2 -> y[1] [] r = 3 -> y[2]
                       [] OTHER -> 0]

\* IntervalFunc, extern "C": the [f32; 2] result is read from s0, s1.
IntervalFuncResult(s) == <<s[0], s[1]>>

InitJitfive ==
    /\ ChunkyIdle
    /\ PointIdle
    /\ SwapIdle
    /\ jtape \in JitTapes       \* to_jit: from_tape(&tape)
    /\ jpc = 0
    /\ sreg = [r \in SRegs |-> 0]
    /\ jx = <<0, 0>>
    /\ jy = <<0, 0>>
    /\ config = [image_size |-> 0, tile_size |-> 0, subtile_size |-> 0, threads |-> 0]
    /\ shape = "none"
    /\ rpc = "idle"
    /\ index = 0
    /\ wpc = [w \in 1..MaxThreads |-> "idle"]
    /\ widx = [w \in 1..MaxThreads |-> 0]
    /\ wout = [w \in 1..MaxThreads |-> <<>>]
    /\ joined = 0
    /\ out = <<>>
    /\ image = <<>>
    /\ rendered = <<>>
    /\ weval = [w \in 1..MaxThreads |-> Evaluator("none")]
    /\ zeroes = FALSE
    /\ arch = "aarch64"
    /\ tape = <<>>
    /\ ipc = -1
    /\ regs = <<>>
    /\ argX = <<0, 0>>
    /\ argY = <<0, 0>>
    /\ choices = <<>>
    /\ simp = <<>>
    /\ ptr = 0
    /\ simp0 = 0
    /\ trace = <<>>

\* IntervalEval::eval(x, y): (self.fn_interval)(x, y), where fn_interval is the
\* shape_fn_pointer of the handle, transmuted by to_interval.
JitEval ==
    /\ jpc = 0
    /\ jx' \in WideIntervals
    /\ jy' \in Intervals
    /\ sreg' = IntervalFuncArgs(jx', jy')
    /\ jpc' = 1
    /\ UNCHANGED jtape
    /\ UNCHANGED <<renderVars, intervalVars, chunkyVars, pointVars, swapVars>>

\* The code of one op of the tape, run.
JitStep ==
    /\ jpc \in 1..Len(jtape)
    /\ sreg' = FromTapeOp(jtape[jpc], sreg)
    /\ jpc' = jpc + 1
    /\ UNCHANGED <<jtape, jx, jy>>
    /\ UNCHANGED <<renderVars, intervalVars, chunkyVars, pointVars, swapVars>>

\* The epilogue and `ret`.
JitRet ==
    /\ jpc = Len(jtape) + 1
    /\ sreg' = FromTapeReturn(sreg)
    /\ jpc' = jpc + 1
    /\ UNCHANGED <<jtape, jx, jy>>
    /\ UNCHANGED <<renderVars, intervalVars, chunkyVars, pointVars, swapVars>>

JitReturned == jpc = Len(jtape) + 2

\* The caller has the result; the next eval can start.
JitDone ==
    /\ JitReturned
    /\ jpc' = 0
    /\ jx' = <<0, 0>>
    /\ jy' = <<0, 0>>
    /\ sreg' = [r \in SRegs |-> 0]
    /\ UNCHANGED jtape
    /\ UNCHANGED <<renderVars, intervalVars, chunkyVars, pointVars, swapVars>>

NextJitfive ==
    \/ JitEval
    \/ JitStep
    \/ JitRet
    \/ JitDone

-----------------------------------------------------------------------------
(***************************************************************************)
(* The variables of the state machines above while another one runs        *)
(***************************************************************************)
RenderIdle ==
    /\ config = [image_size |-> 0, tile_size |-> 0, subtile_size |-> 0, threads |-> 0]
    /\ shape = "none"
    /\ rpc = "idle"
    /\ index = 0
    /\ wpc = [w \in 1..MaxThreads |-> "idle"]
    /\ widx = [w \in 1..MaxThreads |-> 0]
    /\ wout = [w \in 1..MaxThreads |-> <<>>]
    /\ joined = 0
    /\ out = <<>>
    /\ image = <<>>
    /\ rendered = <<>>
    /\ weval = [w \in 1..MaxThreads |-> Evaluator("none")]
    /\ zeroes = FALSE

IntervalIdle ==
    /\ arch = "aarch64"
    /\ tape = <<>>
    /\ ipc = -1
    /\ regs = <<>>
    /\ argX = <<0, 0>>
    /\ argY = <<0, 0>>
    /\ choices = <<>>
    /\ simp = <<>>
    /\ ptr = 0
    /\ simp0 = 0
    /\ trace = <<>>

JitIdle ==
    /\ jtape = <<>>
    /\ jpc = -1
    /\ sreg = <<>>
    /\ jx = <<0, 0>>
    /\ jy = <<0, 0>>

-----------------------------------------------------------------------------
(***************************************************************************)
(* core/chunky/mod.rs: the scheduler buildy() and the passes it runs       *)
(***************************************************************************)

\* The ops of a Context, by what iter_children() yields for them.
Input == [op |-> "Input", args |-> <<>>]

Unary(a) == [op |-> "Unary", args |-> <<a>>]

Binary(a, b) == [op |-> "Binary", args |-> <<a, b>>]

Min(a, b) == [op |-> "Min", args |-> <<a, b>>]

Max(a, b) == [op |-> "Max", args |-> <<a, b>>]

iter_children(op) == op.args

IsMinMax(op) == op.op \in {"Min", "Max"}

\* k nodes: an input below k - 1 unary ops; node k has weight k.
Chain(k) == [i \in 1..k |-> IF i = 1 THEN Input ELSE Unary(i - 1)]

\* The contexts buildy is run on.  Nodes are numbered from 1.
\*   Small     m + m, m = min(x, y)                     every node is inline
\*   Shared    min(f(c), g(c)), c of weight 7           c is inlined twice
\*   Nested    max(min(f(c), g(c)), f(c))               f(c) is live under two clauses
\*   CrossRef  min(f(d), y) + d, d of weight 8          d is used inside and outside the min
\*   Cyclic    1 = f(2), 2 = g(1, 3), 3 = x, 4 = h(3)   not a DAG from 1 and 2
\*   Diamond   e * e, e = f(c) + c, c of weight 7       e is referenced twice by one
\*                                                      node, c by two nodes of a group
Small == <<Input, Input, Min(1, 2), Binary(3, 3)>>

Shared == Chain(7) \o <<Unary(7), Unary(7), Min(8, 9)>>

Nested == Chain(7) \o <<Unary(7), Unary(7), Min(8, 9), Max(10, 8)>>

CrossRef == Chain(8) \o <<Unary(8), Input, Min(9, 10), Binary(11, 8)>>

Cyclic == <<Unary(2), Binary(1, 3), Input, Unary(3)>>

Diamond == Chain(7) \o <<Unary(7), Binary(8, 7), Binary(9, 9)>>

Contexts == {Small, Shared, Nested, CrossRef, Cyclic, Diamond}

Nodes == DOMAIN ctx

\* The nodes reachable from n in c, n included.
RECURSIVE ReachFrom(_, _)
ReachFrom(c, S) ==
    LET T == S \cup {c[n].args[i] : <<n, i>> \in {<<n, i>> \in S \X (1..2) : i <= Len(c[n].args)}}
    IN IF T = S THEN S ELSE ReachFrom(c, T)

Reachable == ReachFrom(ctx, {root})

\* Some node reachable from the root is its own descendant.
HasCycle == \E n \in Reachable : \E i \in 1..Len(ctx[n].args) : n \in ReachFrom(ctx, {ctx[n].args[i]})

\* The longest `todo` the model follows; a loop that needs more has run away.
MaxTodo == 16

max_weight == 7

Insert(map, k, v) == [x \in DOMAIN map \cup {k} |-> IF x = k THEN v ELSE map[x]]

\* A stack nothing is taken from.
NoPop(stack) == stack

\* Vec::pop: the stack without its last entry.
Pop(stack) == SubSeq(stack, 1, Len(stack) - 1)

Top(stack) == stack[Len(stack)]

RECURSIVE SumOnce(_, _)
SumOnce(f, s) ==
    IF s = <<>> THEN 0
    ELSE IF \E i \in 2..Len(s) : s[i] = Head(s) THEN SumOnce(f, Tail(s))
    ELSE f[Head(s)] + SumOnce(f, Tail(s))

\* .map(|c| weights.get(&c).unwrap()).sum()
RECURSIVE SumOf(_, _)
SumOf(f, s) == IF s = <<>> THEN 0 ELSE f[Head(s)] + SumOf(f, Tail(s))

Down(n) == <<"Down", n>>

Up(n) == <<"Up", n>>

InitBuildy ==
    /\ ctx \in Contexts
    /\ root \in DOMAIN ctx
    /\ bpc = "pick_inline"
    /\ todo = <<Down(root)>>
    /\ weights = <<>>
    /\ inline = {}
    /\ seen = {}
    /\ choice_id = <<>>
    /\ node_dnfs = <<>>
    /\ dnf_nodes = <<>>
    /\ globals = {}
    /\ global_node_to_group = <<>>
    /\ children = <<>>
    /\ parent_count = <<>>
    /\ ordered_groups = <<>>
    /\ groups = <<>>
    /\ gi = 0
    /\ ni = 0
    /\ ordered_nodes = <<>>
    /\ alloc_tapes = <<>>
    /\ assigned = <<>>
    /\ global_reg_assignments = <<>>
    /\ spare = {}
    /\ RenderIdle
    /\ IntervalIdle
    /\ JitIdle
    /\ PointIdle
    /\ SwapIdle

\* One pass of pick_inline's `while let Some((a, node)) = todo.pop()`.
PickInline ==
    /\ bpc = "pick_inline"
    /\ todo # <<>>
    /\ LET a == Top(todo)[1]
           node == Top(todo)[2]
           op == ctx[node]
           pushed == Pop(todo) \o <<Up(node)>> \o [i \in 1..Len(iter_children(op)) |-> Down(iter_children(op)[i])]
           w == SumOf(weights, iter_children(op)) + 1
       IN CASE node \in DOMAIN weights ->
                    /\ todo' = Pop(todo)
                    /\ UNCHANGED <<bpc, weights, inline>>
            [] a = "Down" /\ node \notin DOMAIN weights ->
                    IF Len(pushed) > MaxTodo
                    THEN /\ bpc' = "runaway"
                         /\ UNCHANGED <<todo, weights, inline>>
                    ELSE /\ todo' = pushed
                         /\ UNCHANGED <<bpc, weights, inline>>
            [] a = "Up" /\ node \notin DOMAIN weights ->
                    IF \E i \in 1..Len(iter_children(op)) : iter_children(op)[i] \notin DOMAIN weights
                    THEN /\ bpc' = "panic_unwrap_weight"
                         /\ UNCHANGED <<todo, weights, inline>>
                    ELSE /\ todo' = Pop(todo)
                         /\ weights' = Insert(weights, node, w)
                         /\ inline' = IF w <= max_weight THEN inline \cup {node} ELSE inline
                         /\ bpc' = bpc
    /\ UNCHANGED <<ctx, root, seen, choice_id>>
    /\ UNCHANGED <<node_dnfs, dnf_nodes, globals, global_node_to_group, children, parent_count, ordered_groups, groups>>
    /\ UNCHANGED <<gi, ni, ordered_nodes, alloc_tapes, assigned, global_reg_assignments, spare>>
    /\ UNCHANGED <<renderVars, intervalVars, jitVars, pointVars, swapVars>>

\* pick_inline returns; buildy calls assign_choices.
AssignChoicesCall ==
    /\ bpc = "pick_inline"
    /\ todo = <<>>
    /\ bpc' = "assign_choices"
    /\ todo' = <<root>>
    /\ seen' = {}
    /\ choice_id' = <<>>
    /\ UNCHANGED <<ctx, root, weights, inline>>
    /\ UNCHANGED <<node_dnfs, dnf_nodes, globals, global_node_to_group, children, parent_count, ordered_groups, groups>>
    /\ UNCHANGED <<gi, ni, ordered_nodes, alloc_tapes, assigned, global_reg_assignments, spare>>
    /\ UNCHANGED <<renderVars, intervalVars, jitVars, pointVars, swapVars>>

NextIndexStuck(map) == 0

\* ChoiceIndex(choice_id.len())
NextIndex(map) == Cardinality(DOMAIN map)

\* One pass of assign_choices' `while let Some(node) = todo.pop()`.
AssignChoices ==
    /\ bpc = "assign_choices"
    /\ todo # <<>>
    /\ LET node == Top(todo)
           op == ctx[node]
           next == NextIndex(choice_id)
       IN IF node \in seen
          THEN /\ todo' = Pop(todo)
               /\ UNCHANGED <<seen, choice_id>>
          ELSE /\ seen' = seen \cup {node}
               /\ choice_id' = IF IsMinMax(op) /\ node \notin DOMAIN choice_id
                               THEN Insert(choice_id, node, next)
                               ELSE choice_id
               /\ todo' = Pop(todo) \o iter_children(op)
    /\ UNCHANGED <<ctx, root, bpc, weights, inline>>
    /\ UNCHANGED <<node_dnfs, dnf_nodes, globals, global_node_to_group, children, parent_count, ordered_groups, groups>>
    /\ UNCHANGED <<gi, ni, ordered_nodes, alloc_tapes, assigned, global_reg_assignments, spare>>
    /\ UNCHANGED <<renderVars, intervalVars, jitVars, pointVars, swapVars>>

\* Option<DnfClause> as a pair <<root, choice>>, ordered as the derived Ord
\* orders it: None first, then by ChoiceIndex, then by Choice.
Left == 1

Right == 2

NoDnf == <<-1, 0>>

DnfClause(choice_index, choice) == <<choice_index, choice>>

ClauseLess(a, b) == a[1] < b[1] \/ (a[1] = b[1] /\ a[2] < b[2])

Least(S) == CHOOSE a \in S : \A b \in S \ {a} : ClauseLess(a, b)

\* The order of BTreeSet<Option<DnfClause>>, the keys of `dnf_nodes`.
RECURSIVE DnfLess(_, _)
DnfLess(A, B) ==
    IF B = {} THEN FALSE
    ELSE IF A = {} THEN TRUE
    ELSE \/ ClauseLess(Least(A), Least(B))
         \/ Least(A) = Least(B) /\ DnfLess(A \ {Least(A)}, B \ {Least(B)})

\* A BTreeSet in reverse iteration order.
RECURSIVE SetToSeqRev(_)
SetToSeqRev(S) ==
    IF S = {} THEN <<>>
    ELSE LET x == CHOOSE x \in S : \A y \in S : x >= y
         IN <<x>> \o SetToSeqRev(S \ {x})

\* A BTreeSet of nodes or of group indices, in iteration order.
RECURSIVE SetToSeq(_)
SetToSeq(S) ==
    IF S = {} THEN <<>>
    ELSE LET x == CHOOSE x \in S : \A y \in S : x <= y
         IN <<x>> \o SetToSeq(S \ {x})

\* find_groups returns; the collapse of lines 150-154.
Collapse(dnf) == IF Cardinality(dnf) > 1 /\ NoDnf \in dnf THEN {NoDnf} ELSE dnf

\* find_groups returns; the inversion of lines 157-160.  The groups are
\* numbered from 0 in the order of their keys, as values().enumerate() does.
Invert(dnfs) ==
    LET keys == {dnfs[n] : n \in DOMAIN dnfs}
        at(i) == CHOOSE d \in keys : Cardinality({e \in keys : DnfLess(e, d)}) = i
    IN [i \in 0..(Cardinality(keys) - 1) |->
            [dnf |-> at(i), nodes |-> {n \in DOMAIN dnfs : dnfs[n] = at(i)}]]

Groups == DOMAIN dnf_nodes

\* pick_inline returns and assign_choices returns; buildy calls find_groups.
FindGroupsCall ==
    /\ bpc = "assign_choices"
    /\ todo = <<>>
    /\ bpc' = "find_groups"
    /\ todo' = <<<<root, NoDnf>>>>
    /\ node_dnfs' = <<>>
    /\ UNCHANGED <<ctx, root, seen, weights, inline, choice_id>>
    /\ UNCHANGED <<dnf_nodes, globals, global_node_to_group, children, parent_count, ordered_groups, groups>>
    /\ UNCHANGED <<gi, ni, ordered_nodes, alloc_tapes, assigned, global_reg_assignments, spare>>
    /\ UNCHANGED <<renderVars, intervalVars, jitVars, pointVars, swapVars>>

\* One pass of find_groups' `while let Some((node, dnf)) = todo.pop()`.
FindGroups ==
    /\ bpc = "find_groups"
    /\ todo # <<>>
    /\ LET node == Top(todo)[1]
           dnf == Top(todo)[2]
           op == ctx[node]
           old == IF node \in DOMAIN node_dnfs THEN node_dnfs[node] ELSE {}
           choice_index == choice_id[node]
       IN IF node \in inline \/ dnf \in old
          THEN /\ todo' = Pop(todo)
               /\ UNCHANGED node_dnfs
          ELSE /\ node_dnfs' = Insert(node_dnfs, node, old \cup {dnf})
               /\ todo' = Pop(todo) \o
                    CASE op.op = "Input" -> <<>>
                      [] op.op = "Unary" -> <<<<op.args[1], dnf>>>>
                      [] IsMinMax(op) -> << <<op.args[1], DnfClause(choice_index, Left)>>,
                                            <<op.args[2], DnfClause(choice_index, Right)>> >>
                      [] op.op = "Binary" -> << <<op.args[1], dnf>>, <<op.args[2], dnf>> >>
    /\ UNCHANGED <<ctx, root, bpc, seen, weights, inline, choice_id>>
    /\ UNCHANGED <<dnf_nodes, globals, global_node_to_group, children, parent_count, ordered_groups, groups>>
    /\ UNCHANGED <<gi, ni, ordered_nodes, alloc_tapes, assigned, global_reg_assignments, spare>>
    /\ UNCHANGED <<renderVars, intervalVars, jitVars, pointVars, swapVars>>

\* find_groups returns `dnf_nodes`.
FindGroupsReturn ==
    /\ bpc = "find_groups"
    /\ todo = <<>>
    /\ bpc' = "absorb"
    /\ dnf_nodes' = Invert([n \in DOMAIN node_dnfs |-> Collapse(node_dnfs[n])])
    /\ UNCHANGED <<ctx, root, todo, seen, weights, inline, choice_id, node_dnfs>>
    /\ UNCHANGED <<globals, global_node_to_group, children, parent_count, ordered_groups, groups>>
    /\ UNCHANGED <<gi, ni, ordered_nodes, alloc_tapes, assigned, global_reg_assignments, spare>>
    /\ UNCHANGED <<renderVars, intervalVars, jitVars, pointVars, swapVars>>

\* The children of the nodes of a group: all of them, and those line 177 keeps.
ChildrenOf(nodes) == {ctx[n].args[i] : <<n, i>> \in {<<n, i>> \in nodes \X (1..2) : i <= Len(ctx[n].args)}}

AllChildren(nodes) == ChildrenOf(nodes)

InlineChildren(nodes) == {c \in ChildrenOf(nodes) : c \in inline}

\* The `while let Some(node) = todo.pop()` of lines 180-184.
AbsorbLoop(nodes, stack) ==
    LET loop[p \in (SUBSET DOMAIN ctx) \X Seq(DOMAIN ctx)] ==
            IF p[2] = <<>> THEN p[1]
            ELSE IF Top(p[2]) \in p[1] THEN loop[<<p[1], Pop(p[2])>>]
            ELSE loop[<<p[1] \cup {Top(p[2])},
                        Pop(p[2]) \o iter_children(ctx[Top(p[2])])>>]
    IN  loop[<<nodes, stack>>]

\* buildy, lines 172-185: every group takes its inlined nodes in.
Absorb ==
    /\ bpc = "absorb"
    /\ bpc' = "globals"
    /\ dnf_nodes' = [g \in Groups |->
            [dnf_nodes[g] EXCEPT !.nodes = AbsorbLoop(@, SetToSeq(InlineChildren(@)))]]
    /\ UNCHANGED <<ctx, root, todo, seen, weights, inline, choice_id, node_dnfs>>
    /\ UNCHANGED <<globals, global_node_to_group, children, parent_count, ordered_groups, groups>>
    /\ UNCHANGED <<gi, ni, ordered_nodes, alloc_tapes, assigned, global_reg_assignments, spare>>
    /\ UNCHANGED <<renderVars, intervalVars, jitVars, pointVars, swapVars>>

\* The groups a node belongs to.
InGroups(n) == {g \in Groups : n \in dnf_nodes[g].nodes}

\* What lines 188-196 collect: the children a group's nodes have outside it.
ReachOut == UNION {ChildrenOf(dnf_nodes[g].nodes) \ dnf_nodes[g].nodes : g \in Groups}

\* buildy, lines 187-199: the globals and the two assertions on them.
Globals ==
    /\ bpc = "globals"
    /\ IF ReachOut \cap inline # {}
       THEN /\ bpc' = "panic_assert_globals_inline"
            /\ UNCHANGED globals
       ELSE IF root \in ReachOut
       THEN /\ bpc' = "panic_assert_globals_root"
            /\ UNCHANGED globals
       ELSE /\ bpc' = "group_graph"
            /\ globals' = ReachOut \cup {root}
    /\ UNCHANGED <<ctx, root, todo, seen, weights, inline, choice_id, node_dnfs, dnf_nodes>>
    /\ UNCHANGED <<global_node_to_group, children, parent_count, ordered_groups, groups>>
    /\ UNCHANGED <<gi, ni, ordered_nodes, alloc_tapes, assigned, global_reg_assignments, spare>>
    /\ UNCHANGED <<renderVars, intervalVars, jitVars, pointVars, swapVars>>

\* Lines 202-211; collect() keeps the last pair of a node.
GlobalNodeToGroup ==
    [n \in {n \in globals : InGroups(n) # {}} |->
        CHOOSE g \in InGroups(n) : \A h \in InGroups(n) : h <= g]

\* Lines 214-229, the child groups of group g.
ChildGroups(g) ==
    {GlobalNodeToGroup[c] : c \in ChildrenOf(dnf_nodes[g].nodes) \cap DOMAIN GlobalNodeToGroup} \ {g}

\* buildy, lines 201-235: the group graph, and the start of the count of
\* parents at the group of the root.
GroupGraph ==
    /\ bpc = "group_graph"
    /\ global_node_to_group' = GlobalNodeToGroup
    /\ children' = [g \in Groups |-> ChildGroups(g)]
    /\ parent_count' = <<>>
    /\ seen' = {}
    /\ IF root \in DOMAIN GlobalNodeToGroup
       THEN /\ bpc' = "parent_count"
            /\ todo' = <<GlobalNodeToGroup[root]>>
       ELSE /\ bpc' = "panic_index_root_group"
            /\ UNCHANGED todo
    /\ UNCHANGED <<ctx, root, weights, inline, choice_id, node_dnfs, dnf_nodes>>
    /\ UNCHANGED <<globals, ordered_groups, groups>>
    /\ UNCHANGED <<gi, ni, ordered_nodes, alloc_tapes, assigned, global_reg_assignments, spare>>
    /\ UNCHANGED <<renderVars, intervalVars, jitVars, pointVars, swapVars>>

CountOf(group) == IF group \in DOMAIN parent_count THEN parent_count[group] ELSE 0

\* One pass of the `while let Some(group) = todo.pop()` of lines 236-244.
ParentCount ==
    /\ bpc = "parent_count"
    /\ todo # <<>>
    /\ LET group == Top(todo)
       IN IF group \in seen
          THEN /\ todo' = Pop(todo)
               /\ UNCHANGED <<seen, parent_count>>
          ELSE /\ seen' = seen \cup {group}
               /\ parent_count' = [c \in DOMAIN parent_count \cup children[group] |->
                        IF c \in children[group] THEN CountOf(c) + 1 ELSE CountOf(c)]
               /\ todo' = Pop(todo) \o SetToSeq(children[group])
    /\ UNCHANGED <<ctx, root, bpc, weights, inline, choice_id, node_dnfs, dnf_nodes>>
    /\ UNCHANGED <<globals, global_node_to_group, children, ordered_groups, groups>>
    /\ UNCHANGED <<gi, ni, ordered_nodes, alloc_tapes, assigned, global_reg_assignments, spare>>
    /\ UNCHANGED <<renderVars, intervalVars, jitVars, pointVars, swapVars>>

\* buildy, lines 246-249.
FlattenCall ==
    /\ bpc = "parent_count"
    /\ todo = <<>>
    /\ bpc' = "flatten"
    /\ ordered_groups' = <<>>
    /\ todo' = <<global_node_to_group[root]>>
    /\ seen' = {}
    /\ UNCHANGED <<ctx, root, weights, inline, choice_id, node_dnfs, dnf_nodes>>
    /\ UNCHANGED <<globals, global_node_to_group, children, parent_count, groups>>
    /\ UNCHANGED <<gi, ni, ordered_nodes, alloc_tapes, assigned, global_reg_assignments, spare>>
    /\ UNCHANGED <<renderVars, intervalVars, jitVars, pointVars, swapVars>>

\* One pass of the `while let Some(group) = todo.pop()` of lines 250-259.
Flatten ==
    /\ bpc = "flatten"
    /\ todo # <<>>
    /\ LET group == Top(todo)
       IN IF CountOf(group) > 0 \/ group \in seen
          THEN /\ todo' = Pop(todo)
               /\ UNCHANGED <<bpc, seen, parent_count, ordered_groups>>
          ELSE IF \E c \in children[group] : CountOf(c) = 0
          THEN /\ bpc' = "panic_parent_count"
               /\ UNCHANGED <<todo, seen, parent_count, ordered_groups>>
          ELSE /\ seen' = seen \cup {group}
               /\ todo' = Pop(todo) \o SetToSeq(children[group])
               /\ parent_count' = [c \in DOMAIN parent_count |->
                        IF c \in children[group] THEN parent_count[c] - 1 ELSE parent_count[c]]
               /\ ordered_groups' = Append(ordered_groups, group)
               /\ bpc' = bpc
    /\ UNCHANGED <<ctx, root, weights, inline, choice_id, node_dnfs, dnf_nodes>>
    /\ UNCHANGED <<globals, global_node_to_group, children, groups>>
    /\ UNCHANGED <<gi, ni, ordered_nodes, alloc_tapes, assigned, global_reg_assignments, spare>>
    /\ UNCHANGED <<renderVars, intervalVars, jitVars, pointVars, swapVars>>

\* group_order after the loop of lines 262-265, a vector of
\* ordered_groups.len() entries that start at 0.
GroupOrderOf(g) ==
    IF \E i \in 1..Len(ordered_groups) : ordered_groups[i] = g
    THEN (CHOOSE i \in 1..Len(ordered_groups) : ordered_groups[i] = g) - 1
    ELSE 0

\* buildy, lines 260-274: the checks on ordered_groups and the vector
\* `groups` (with `dnfs`) in emission order.
GroupOrder ==
    /\ bpc = "flatten"
    /\ todo = <<>>
    /\ LET len == Len(ordered_groups)
           last(j) == CHOOSE i \in Groups : GroupOrderOf(i) = j /\ \A h \in Groups : GroupOrderOf(h) = j => h <= i
       IN IF len = 0
          THEN /\ bpc' = "panic_index_ordered_groups"
               /\ UNCHANGED groups
          ELSE IF ordered_groups[1] # global_node_to_group[root]
          THEN /\ bpc' = "panic_assert_eq_root_group"
               /\ UNCHANGED groups
          ELSE IF \E i \in 1..len : ordered_groups[i] >= len
          THEN /\ bpc' = "panic_index_group_order"
               /\ UNCHANGED groups
          ELSE IF \E i \in Groups : i >= len
          THEN /\ bpc' = "panic_index_group_order"
               /\ UNCHANGED groups
          ELSE /\ bpc' = "node_order"
               /\ groups' = [j \in 0..(len - 1) |-> dnf_nodes[last(j)]]
    /\ UNCHANGED <<ctx, root, todo, seen, weights, inline, choice_id, node_dnfs, dnf_nodes>>
    /\ UNCHANGED <<globals, global_node_to_group, children, parent_count, ordered_groups>>
    /\ UNCHANGED <<gi, ni, ordered_nodes, alloc_tapes, assigned, global_reg_assignments, spare>>
    /\ UNCHANGED <<renderVars, intervalVars, jitVars, pointVars, swapVars>>

\* The children of n that are members of g, one entry for each reference.
KidsIn(n, g) == LET InG(c) == c \in g IN SelectSeq(iter_children(ctx[n]), InG)

Occurrences(s, c) == Cardinality({i \in 1..Len(s) : s[i] = c})

SeqSet(s) == {s[i] : i \in 1..Len(s)}

\* `start` of lines 283-293: the members of g no member of g has as a child.
Start(g) == SetToSeq(g \ ChildrenOf(g))

\* buildy, lines 276-297: the next group of `for g in &groups`.
NodeOrderGroup ==
    /\ bpc = "node_order"
    /\ gi < Cardinality(DOMAIN groups)
    /\ bpc' = "node_count"
    /\ parent_count' = <<>>
    /\ seen' = {}
    /\ todo' = Start(groups[gi].nodes)
    /\ ordered_groups' = IF gi = 0 THEN <<>> ELSE ordered_groups
    /\ UNCHANGED <<ctx, root, weights, inline, choice_id, node_dnfs, dnf_nodes>>
    /\ UNCHANGED <<globals, global_node_to_group, children, groups>>
    /\ UNCHANGED <<gi, ni, ordered_nodes, alloc_tapes, assigned, global_reg_assignments, spare>>
    /\ UNCHANGED <<renderVars, intervalVars, jitVars, pointVars, swapVars>>

\* One pass of the `while let Some(n) = todo.pop()` of lines 298-311.
NodeCount ==
    /\ bpc = "node_count"
    /\ todo # <<>>
    /\ LET n == Top(todo)
           kids == KidsIn(n, groups[gi].nodes)
       IN IF n \in seen
          THEN /\ todo' = Pop(todo)
               /\ UNCHANGED <<seen, parent_count>>
          ELSE /\ seen' = seen \cup {n}
               /\ parent_count' = [c \in DOMAIN parent_count \cup SeqSet(kids) |->
                        CountOf(c) + Occurrences(kids, c)]
               /\ todo' = Pop(todo) \o kids
    /\ UNCHANGED <<ctx, root, bpc, weights, inline, choice_id, node_dnfs, dnf_nodes>>
    /\ UNCHANGED <<globals, global_node_to_group, children, ordered_groups, groups>>
    /\ UNCHANGED <<gi, ni, ordered_nodes, alloc_tapes, assigned, global_reg_assignments, spare>>
    /\ UNCHANGED <<renderVars, intervalVars, jitVars, pointVars, swapVars>>

\* buildy, lines 313-316.
NodeFlattenCall ==
    /\ bpc = "node_count"
    /\ todo = <<>>
    /\ bpc' = "node_flatten"
    /\ ordered_nodes' = <<>>
    /\ seen' = {}
    /\ todo' = Start(groups[gi].nodes)
    /\ UNCHANGED <<ctx, root, weights, inline, choice_id, node_dnfs, dnf_nodes>>
    /\ UNCHANGED <<globals, global_node_to_group, children, parent_count, ordered_groups, groups>>
    /\ UNCHANGED <<gi, ni, alloc_tapes, assigned, global_reg_assignments, spare>>
    /\ UNCHANGED <<renderVars, intervalVars, jitVars, pointVars, swapVars>>

\* Line 318 with a node that is not to be emitted.
SeenBefore(n) == n \in seen

\* Line 318: the node still has a parent to wait for, or was emitted.
NotReady(n) == CountOf(n) > 0 \/ n \in seen

\* One pass of the `while let Some(n) = todo.pop()` of lines 317-331.
NodeFlatten ==
    /\ bpc = "node_flatten"
    /\ todo # <<>>
    /\ LET n == Top(todo)
           kids == KidsIn(n, groups[gi].nodes)
       IN IF NotReady(n)
          THEN /\ todo' = Pop(todo)
               /\ UNCHANGED <<bpc, seen, parent_count, ordered_nodes>>
          ELSE IF \E c \in SeqSet(kids) : CountOf(c) < Occurrences(kids, c)
          THEN /\ bpc' = "panic_node_parent_count"
               /\ UNCHANGED <<todo, seen, parent_count, ordered_nodes>>
          ELSE /\ seen' = seen \cup {n}
               /\ todo' = Pop(todo) \o kids
               /\ parent_count' = [c \in DOMAIN parent_count |-> parent_count[c] - Occurrences(kids, c)]
               /\ ordered_nodes' = Append(ordered_nodes, n)
               /\ bpc' = bpc
    /\ UNCHANGED <<ctx, root, weights, inline, choice_id, node_dnfs, dnf_nodes>>
    /\ UNCHANGED <<globals, global_node_to_group, children, ordered_groups, groups>>
    /\ UNCHANGED <<gi, ni, alloc_tapes, assigned, global_reg_assignments, spare>>
    /\ UNCHANGED <<renderVars, intervalVars, jitVars, pointVars, swapVars>>

\* buildy, line 332: the group is ordered.
NodeOrderPush ==
    /\ bpc = "node_flatten"
    /\ todo = <<>>
    /\ bpc' = "node_order"
    /\ ordered_groups' = Append(ordered_groups, ordered_nodes)
    /\ gi' = gi + 1
    /\ UNCHANGED <<ctx, root, todo, seen, weights, inline, choice_id, node_dnfs, dnf_nodes>>
    /\ UNCHANGED <<globals, global_node_to_group, children, parent_count, groups>>
    /\ UNCHANGED <<ni, ordered_nodes, alloc_tapes, assigned, global_reg_assignments, spare>>
    /\ UNCHANGED <<renderVars, intervalVars, jitVars, pointVars, swapVars>>

\* The cutoffs of lines 378-384 when the allocator spills nothing: the
\* number of ops of the groups up to and including each group.
RECURSIVE Cutoffs(_, _)
Cutoffs(sizes, before) ==
    IF sizes = <<>> THEN <<>>
    ELSE <<before + Head(sizes)>> \o Cutoffs(Tail(sizes), before + Head(sizes))

\* The loop of lines 392-402 on the cutoffs that are left, `cumsize` and
\* the number of ops `tape_slice` still has: the lengths of the sub-tapes,
\* or <<-1>> when `size - cumsize` underflows or next() returns None.
RECURSIVE SplitTape(_, _, _)
SplitTape(cutoffs, cumsize, left) ==
    IF cutoffs = <<>> THEN <<>>
    ELSE LET size == Head(cutoffs)
         IN IF size < cumsize \/ size - cumsize > left THEN <<-1>>
            ELSE <<size - cumsize>> \o SplitTape(Tail(cutoffs), cumsize + size, left - (size - cumsize))

\* buildy, lines 334-422: `groups` becomes the ordered groups, the tape is
\* built, allocated and split, and the walk over the globals starts.
AssignCall ==
    /\ bpc = "node_order"
    /\ gi = Cardinality(DOMAIN groups)
    /\ LET sizes == [j \in 1..Len(ordered_groups) |-> Len(ordered_groups[j])]
           cutoffs == Cutoffs(sizes, 0)
           split == SplitTape(cutoffs, 0, IF cutoffs = <<>> THEN 0 ELSE cutoffs[Len(cutoffs)])
       IN /\ groups' = [j \in DOMAIN groups |-> [groups[j] EXCEPT !.nodes = ordered_groups[j + 1]]]
          /\ alloc_tapes' = split
          /\ bpc' = IF -1 \in SeqSet(split) THEN "panic_split_tape" ELSE "assign"
    /\ assigned' = Insert(<<>>, root, 0)
    /\ global_reg_assignments' = <<>>
    /\ spare' = {}
    /\ gi' = 0
    /\ ni' = 1
    /\ UNCHANGED <<ctx, root, todo, seen, weights, inline, choice_id, node_dnfs, dnf_nodes>>
    /\ UNCHANGED <<globals, global_node_to_group, children, parent_count, ordered_groups, ordered_nodes>>
    /\ UNCHANGED <<renderVars, intervalVars, jitVars, pointVars, swapVars>>

\* A map whose entry stays where it is.
Kept(map, k) == map

\* BTreeMap::remove
Remove(map, k) == [x \in DOMAIN map \ {k} |-> map[x]]

\* The `for child in ...` of lines 434-450 on the children that are left:
\* the new `assigned` and `spare`.
RECURSIVE AssignKids(_, _, _)
AssignKids(kids, a, s) ==
    IF kids = <<>> THEN <<a, s>>
    ELSE LET child == Head(kids)
             next == Cardinality(DOMAIN a)
             t == CHOOSE t \in s : \A u \in s : t <= u
         IN IF child \in DOMAIN a THEN AssignKids(Tail(kids), a, s)
            ELSE IF s # {} THEN AssignKids(Tail(kids), Insert(a, child, t), s \ {t})
            ELSE AssignKids(Tail(kids), Insert(a, child, next), s)

\* One pass of `for n in g.iter()` of lines 424-451.
Assign ==
    /\ bpc = "assign"
    /\ gi < Cardinality(DOMAIN groups)
    /\ ni <= Len(groups[gi].nodes)
    /\ LET n == groups[gi].nodes[ni]
           isGlobal == n \in globals
           a1 == IF isGlobal THEN Remove(assigned, n) ELSE assigned
           s1 == IF isGlobal /\ n \in DOMAIN assigned THEN spare \cup {assigned[n]} ELSE spare
           kids == KidsIn(n, globals)
           done == AssignKids(kids, a1, s1)
       IN IF isGlobal /\ n \notin DOMAIN assigned
          THEN /\ bpc' = "panic_unassigned_global"
               /\ UNCHANGED <<assigned, global_reg_assignments, spare, gi, ni>>
          ELSE IF isGlobal /\ n \in DOMAIN global_reg_assignments
          THEN /\ bpc' = "panic_assert_assigned_twice"
               /\ UNCHANGED <<assigned, global_reg_assignments, spare, gi, ni>>
          ELSE IF n \in DOMAIN a1
          THEN /\ bpc' = "panic_assert_still_assigned"
               /\ UNCHANGED <<assigned, global_reg_assignments, spare, gi, ni>>
          ELSE /\ global_reg_assignments' =
                    IF isGlobal THEN Insert(global_reg_assignments, n, assigned[n])
                    ELSE global_reg_assignments
               /\ assigned' = done[1]
               /\ spare' = done[2]
               /\ IF ni < Len(groups[gi].nodes)
                  THEN ni' = ni + 1 /\ gi' = gi
                  ELSE ni' = 1 /\ gi' = gi + 1
               /\ bpc' = bpc
    /\ UNCHANGED <<ctx, root, todo, seen, weights, inline, choice_id, node_dnfs, dnf_nodes>>
    /\ UNCHANGED <<globals, global_node_to_group, children, parent_count, ordered_groups, groups>>
    /\ UNCHANGED <<ordered_nodes, alloc_tapes>>
    /\ UNCHANGED <<renderVars, intervalVars, jitVars, pointVars, swapVars>>

\* buildy, lines 453-501: the walk is over, buildy prints and returns Ok(()).
BuildyReturn ==
    /\ bpc = "assign"
    /\ gi = Cardinality(DOMAIN groups)
    /\ bpc' = "Ok"
    /\ UNCHANGED <<ctx, root, todo, seen, weights, inline, choice_id, node_dnfs, dnf_nodes>>
    /\ UNCHANGED <<globals, global_node_to_group, children, parent_count, ordered_groups, groups>>
    /\ UNCHANGED <<gi, ni, ordered_nodes, alloc_tapes, assigned, global_reg_assignments, spare>>
    /\ UNCHANGED <<renderVars, intervalVars, jitVars, pointVars, swapVars>>


NextBuildy ==
    \/ PickInline
    \/ AssignChoicesCall
    \/ AssignChoices
    \/ FindGroupsCall
    \/ FindGroups
    \/ FindGroupsReturn
    \/ Absorb
    \/ Globals
    \/ GroupGraph
    \/ ParentCount
    \/ FlattenCall
    \/ Flatten
    \/ GroupOrder
    \/ NodeOrderGroup
    \/ NodeCount
    \/ NodeFlattenCall
    \/ NodeFlatten
    \/ NodeOrderPush
    \/ AssignCall
    \/ Assign
    \/ BuildyReturn

-----------------------------------------------------------------------------
(***************************************************************************)
(* jit/aarch64/point.rs: the PointAssembler and the function it builds     *)
(***************************************************************************)

\* crate::jit: the fast registers are v8..v31.
OFFSET == 8

REGISTER_LIMIT == 24

\* u8::wrapping_sub
WrappingSub(a, b) == (a - b + 256) % 256

\* reg(): the register of the machine that holds fast register r.
reg(r) == (r + OFFSET) % 256

\* The ops of a point tape, by the build_ function they are assembled with.
PInput(o, a) == [op |-> "Input", out |-> o, arg |-> a]

PNeg(o, l) == [op |-> "Neg", out |-> o, lhs |-> l]

PLoad(d, m) == [op |-> "Load", reg |-> d, mem |-> m]

PStore(m, s) == [op |-> "Store", reg |-> s, mem |-> m]

PMinRegReg(io, a, i, b) == [op |-> "MinRegRegChoice", inout |-> io, arg |-> a, index |-> i, bit |-> b]

PMaxRegReg(io, a, i, b) == [op |-> "MaxRegRegChoice", inout |-> io, arg |-> a, index |-> i, bit |-> b]

PMinMemReg(m, a, i, b) == [op |-> "MinMemRegChoice", mem |-> m, arg |-> a, index |-> i, bit |-> b]

PMaxMemReg(m, a, i, b) == [op |-> "MaxMemRegChoice", mem |-> m, arg |-> a, index |-> i, bit |-> b]

\* The tapes the assembler is given; their registers are below
\* REGISTER_LIMIT, as the register allocator leaves them.
\*   min(x, y) and max(x, y) reduced into register 0 by two contributions
\*   -x, with x spilled to slot 0 and loaded back
\*   min and max with the accumulator in slot 0
PointTapes ==
    { <<PInput(1, 0), PInput(2, 1), PMinRegReg(0, 1, 0, 1), PMinRegReg(0, 2, 0, 2)>>,
      <<PInput(1, 0), PInput(2, 1), PMaxRegReg(0, 1, 0, 1), PMaxRegReg(0, 2, 0, 2)>>,
      <<PInput(1, 0), PStore(0, 1), PLoad(2, 0), PNeg(0, 2)>>,
      <<PInput(1, 0), PMinMemReg(0, 1, 0, 1), PLoad(0, 0)>>,
      <<PInput(1, 0), PMaxMemReg(0, 1, 0, 1), PLoad(0, 0)>> }

\* The S registers the functions touch: the arguments s0, s1, the scratch
\* s6 and the fast registers 0..2.
SRegisters == {0, 1, 6, 8, 9, 10}

IsRegRegChoice(o) == o.op \in {"MinRegRegChoice", "MaxRegRegChoice"}

IsMemRegChoice(o) == o.op \in {"MinMemRegChoice", "MaxMemRegChoice"}

\* `lhs` of build_min_mem_reg_choice and build_max_mem_reg_choice.
MemChoiceLhs == WrappingSub(6, OFFSET)

\* The first assertion of build_load / build_store that fails while the op
\* is assembled, "ok" when none does.
BuildAsserts(o) ==
    CASE o.op = "Load" -> IF o.reg < REGISTER_LIMIT THEN "ok" ELSE "panic_build_load"
      [] o.op = "Store" -> IF o.reg < REGISTER_LIMIT THEN "ok" ELSE "panic_build_store"
      [] IsMemRegChoice(o) ->
            IF ~(MemChoiceLhs < REGISTER_LIMIT) THEN "panic_build_load" ELSE "ok"
      [] OTHER -> "ok"

\* set_choice_bit and set_choice_exclusive of jit/aarch64/mod.rs.
SetChoiceBit(byte, bit) == BitOr(byte, 2 ^ bit)

SetChoiceExclusive(byte, bit) == 2 ^ bit

\* fcmp, then b.mi / b.gt.
Mi(a, b) == Ordered(a, b) /\ a < b

Gt(a, b) == Ordered(a, b) /\ a > b

\* build_min_reg_reg_choice / build_max_reg_reg_choice of op o, run on the
\* in/out value, the contributor's value, the choice byte, the `count` byte
\* and bit 0 of w15.  `ldr b15` loads the choice byte into the SIMD register
\* v15; `ands`, `mov` and `orr` work on the general register w15; `str b15`
\* stores the byte of v15.
RegRegChoice(o, inout, arg, byte, cnt, w) ==
    LET isMin == o.op \in {"MinRegRegChoice", "MinMemRegChoice"}
        loaded == byte                          \* ldr b15, [x2, #i]
        zero == (w % 2) = 0                     \* ands w15, w15, #1
        toL == IF isMin THEN Mi(inout, arg) ELSE Gt(inout, arg)
        toR == IF isMin THEN Gt(inout, arg) ELSE Mi(inout, arg)
        \* the branch taken: the in/out value, the choice byte, the count byte
        at == IF ~zero                          \* b.eq >V not taken: fmov; b >E
              THEN <<arg, byte, cnt>>
              ELSE IF toL                       \* L: mov w15, #1; str b15, [x3]
              THEN <<inout, byte, loaded>>
              ELSE IF toR                       \* R: str b15, [x3]; fmov; set_choice_exclusive
              THEN <<arg, SetChoiceExclusive(byte, o.bit), loaded>>
              ELSE <<IF isMin THEN Fmin(inout, inout) ELSE Fmax(inout, inout),
                     SetChoiceBit(byte, o.bit), cnt>>
    \* E: ldr b15, [x2, #i]; orr w15, w15, #1; str b15, [x2, #i]
    IN  [inout |-> at[1], byte |-> at[2], cnt |-> at[3], w15 |-> 1, b15 |-> at[2]]

InitPoint ==
    /\ ptape \in PointTapes
    /\ pphase = "assemble"
    /\ ppc = 1
    /\ sregs = [r \in SRegisters |-> 0]
    /\ frame = 0
    /\ slots = <<0>>
    /\ cbytes = <<0>>
    /\ count = 0
    /\ w15 = 0
    /\ b15 = 0
    /\ RenderIdle
    /\ IntervalIdle
    /\ JitIdle
    /\ ChunkyIdle
    /\ SwapIdle

\* The build_ function of the next op of the tape is called.
PointAssemble ==
    /\ pphase = "assemble"
    /\ ppc <= Len(ptape)
    /\ IF BuildAsserts(ptape[ppc]) = "ok"
       THEN /\ ppc' = ppc + 1
            /\ UNCHANGED pphase
       ELSE /\ pphase' = BuildAsserts(ptape[ppc])
            /\ UNCHANGED ppc
    /\ UNCHANGED <<ptape, sregs, frame, slots, cbytes, count, w15, b15>>
    /\ UNCHANGED <<renderVars, intervalVars, jitVars, chunkyVars, swapVars>>

\* The function is called: x in s0, y in s1, the choice bytes at x2, the
\* count byte at x3.  The entry point saves d8..d15, which hold what the
\* caller left in them, and jumps through x15 to the code of the tape;
\* w15 holds the low half of that address, a multiple of 4.
PointCall ==
    /\ pphase = "assemble"
    /\ ppc > Len(ptape)
    /\ pphase' = "run"
    /\ ppc' = 1
    /\ \E x \in F32, y \in F32, d8 \in F32 :
            /\ sregs' = [r \in SRegisters |-> CASE r = 0 -> x [] r = 1 -> y [] r = 8 -> d8 [] OTHER -> 0]
            /\ frame' = d8
    /\ cbytes' \in {<<0>>, <<1>>, <<3>>, <<5>>}
    /\ count' = 0
    /\ w15' = 0
    /\ UNCHANGED <<ptape, slots, b15>>
    /\ UNCHANGED <<renderVars, intervalVars, jitVars, chunkyVars, swapVars>>

\* The code of the next op of the tape runs.
PointStep ==
    /\ pphase = "run"
    /\ ppc <= Len(ptape)
    /\ ppc' = ppc + 1
    /\ LET o == ptape[ppc]
           rr == RegRegChoice(o, sregs[reg(o.inout)], sregs[reg(o.arg)], cbytes[o.index + 1], count, w15)
           mr == RegRegChoice(o, slots[o.mem + 1], sregs[reg(o.arg)], cbytes[o.index + 1], count, w15)
       IN CASE o.op = "Input" ->
                /\ sregs' = [sregs EXCEPT ![reg(o.out)] = sregs[o.arg]]
                /\ UNCHANGED <<slots, cbytes, count, w15, b15>>
            [] o.op = "Neg" ->
                /\ sregs' = [sregs EXCEPT ![reg(o.out)] = Fneg(sregs[reg(o.lhs)])]
                /\ UNCHANGED <<slots, cbytes, count, w15, b15>>
            [] o.op = "Load" ->
                /\ sregs' = [sregs EXCEPT ![reg(o.reg)] = slots[o.mem + 1]]
                /\ UNCHANGED <<slots, cbytes, count, w15, b15>>
            [] o.op = "Store" ->
                /\ slots' = [slots EXCEPT ![o.mem + 1] = sregs[reg(o.reg)]]
                /\ UNCHANGED <<sregs, cbytes, count, w15, b15>>
            [] IsRegRegChoice(o) ->
                /\ sregs' = [sregs EXCEPT ![reg(o.inout)] = rr.inout]
                /\ cbytes' = [cbytes EXCEPT ![o.index + 1] = rr.byte]
                /\ count' = rr.cnt
                /\ w15' = rr.w15
                /\ b15' = rr.b15
                /\ UNCHANGED slots
            [] IsMemRegChoice(o) ->
                /\ sregs' = [sregs EXCEPT ![reg(MemChoiceLhs)] = mr.inout]
                /\ slots' = [slots EXCEPT ![o.mem + 1] = mr.inout]
                /\ cbytes' = [cbytes EXCEPT ![o.index + 1] = mr.byte]
                /\ count' = mr.cnt
                /\ w15' = mr.w15
                /\ b15' = mr.b15
    /\ UNCHANGED <<ptape, pphase, frame>>
    /\ UNCHANGED <<renderVars, intervalVars, jitVars, chunkyVars, swapVars>>

out_reg == 0

ReturnsFirstArgument(s) == s[0]

\* fmov s0, S(reg(out_reg))
ReturnValueOf(s) == s[reg(out_reg)]

\* The code of the tape returns into the entry point, which moves the
\* result to s0, restores d8..d15 and returns.
PointReturn ==
    /\ pphase = "run"
    /\ ppc > Len(ptape)
    /\ pphase' = "returned"
    /\ sregs' = [sregs EXCEPT ![0] = ReturnValueOf(sregs), ![8] = frame, ![9] = 0, ![10] = 0]
    /\ UNCHANGED <<ptape, ppc, frame, slots, cbytes, count, w15, b15>>
    /\ UNCHANGED <<renderVars, intervalVars, jitVars, chunkyVars, swapVars>>

NextPoint ==
    \/ PointAssemble
    \/ PointCall
    \/ PointStep
    \/ PointReturn

-----------------------------------------------------------------------------
(***************************************************************************)
(* jitfive backend/dynasm.rs: the code from_tape and tape_to_interval emit *)
(* for ClauseOp32::Swap.  A vector register is <<lane 0, lane 1>>; the     *)
(* memory is the two 32-bit words at [sp, #sp_offset].                     *)
(***************************************************************************)

SwapFns == {"from_tape", "tape_to_interval"}

\* A write to the S view of a vector register clears the rest of it.
WriteS(a) == <<a, 0>>

\* str s3, [sp, #(sp_offset)] in both functions: 4 bytes are written.
StrS(mem, v) == <<v[1], mem[2]>>

InitSwap ==
    /\ \E fn \in SwapFns, r \in Intervals, mem \in Intervals :
            /\ swap = [fn |-> fn, pc |-> 1, fast_reg |-> r, v3 |-> <<0, 0>>, mem |-> mem]
            /\ swap0 = [fast_reg |-> r, mem |-> mem]
    /\ RenderIdle
    /\ IntervalIdle
    /\ JitIdle
    /\ ChunkyIdle
    /\ PointIdle

\* fmov s3, S(fast_reg)  /  fmov d3, D(fast_reg)
SwapFmov ==
    /\ swap # <<>>
    /\ swap.pc = 1
    /\ swap' = [swap EXCEPT !.pc = 2,
                            !.v3 = IF swap.fn = "from_tape" THEN WriteS(swap.fast_reg[1])
                                   ELSE swap.fast_reg]
    /\ UNCHANGED swap0
    /\ UNCHANGED <<renderVars, intervalVars, jitVars, chunkyVars, pointVars>>

\* ldr S(fast_reg), [sp, #(sp_offset)]  /  ldr D(fast_reg), [sp, #(sp_offset)]
SwapLdr ==
    /\ swap # <<>>
    /\ swap.pc = 2
    /\ swap' = [swap EXCEPT !.pc = 3,
                            !.fast_reg = IF swap.fn = "from_tape" THEN WriteS(swap.mem[1])
                                         ELSE swap.mem]
    /\ UNCHANGED swap0
    /\ UNCHANGED <<renderVars, intervalVars, jitVars, chunkyVars, pointVars>>

\* str s3, [sp, #(sp_offset)]
SwapStr ==
    /\ swap # <<>>
    /\ swap.pc = 3
    /\ swap' = [swap EXCEPT !.pc = 4, !.mem = StrS(swap.mem, swap.v3)]
    /\ UNCHANGED swap0
    /\ UNCHANGED <<renderVars, intervalVars, jitVars, chunkyVars, pointVars>>

NextSwap ==
    \/ SwapFmov
    \/ SwapLdr
    \/ SwapStr

-----------------------------------------------------------------------------
(***************************************************************************)
(* Specifications                                                          *)
(***************************************************************************)

SpecRender == InitRender /\ [][NextRender]_vars

SpecInterval == InitInterval /\ [][NextInterval]_vars

SpecJitfive == InitJitfive /\ [][NextJitfive]_vars

SpecSqrt == InitSqrt /\ [][NextSqrt]_vars

SpecBuildy == InitBuildy /\ [][NextBuildy]_vars

SpecPoint == InitPoint /\ [][NextPoint]_vars

SpecSwap == InitSwap /\ [][NextSwap]_vars

\* The scheduler and the two compiled point functions, each started on its
\* own: what one of them leaves in register 0 is what the others read.
InitRegisterZero == InitBuildy \/ InitPoint \/ InitJitfive

NextRegisterZero ==
    \/ PickInline
    \/ AssignChoicesCall
    \/ AssignChoices
    \/ FindGroupsCall
    \/ FindGroups
    \/ FindGroupsReturn
    \/ Absorb
    \/ Globals
    \/ GroupGraph
    \/ ParentCount
    \/ FlattenCall
    \/ Flatten
    \/ GroupOrder
    \/ NodeOrderGroup
    \/ NodeCount
    \/ NodeFlattenCall
    \/ NodeFlatten
    \/ NodeOrderPush
    \/ AssignCall
    \/ Assign
    \/ BuildyReturn
    \/ PointAssemble
    \/ PointCall
    \/ PointStep
    \/ PointReturn
    \/ JitEval
    \/ JitStep
    \/ JitRet
    \/ JitDone

SpecRegisterZero == InitRegisterZero /\ [][NextRegisterZero]_vars

\* buildy is a sequential function: it keeps running while it has a next step.
SpecBuildyLive == InitBuildy /\ [][NextBuildy]_vars /\ WF_vars(NextBuildy)

-----------------------------------------------------------------------------
(***************************************************************************)
(* Properties of render()                                                  *)
(***************************************************************************)

\* render() is past its assertions and has joined every worker it spawned.
AllJoined == rpc \in {"joining", "merged", "done", "panic_unwrap"} /\ joined = config.threads

\* How often tile k of the tile list appears in render()'s `out`.
TimesInOut(k) == Cardinality({n \in 1..Len(out) : out[n].tile = Tiles(config)[k]})

\* C1: with at least one worker thread, every tile of the tile list is rendered
\* exactly once: no tile is ever rendered twice, and once all workers are joined
\* no tile has been skipped; each tile then appears exactly once in `out`.
C1_EachTileOnce ==
    /\ \A k \in DOMAIN rendered : rendered[k] <= 1
    /\ (AllJoined /\ config.threads >= 1) =>
          \A k \in DOMAIN rendered : rendered[k] = 1 /\ TimesInOut(k) = 1

\* C1 (witness): a render of four tiles by two workers has finished, and each
\* worker rendered some of the tiles.
C1_TwoWorkersShareTiles ==
    /\ rpc = "done"
    /\ config.threads = 2
    /\ Len(rendered) = 4
    /\ Len(wout[1]) >= 1
    /\ Len(wout[2]) >= 1

\* C2: for every configuration that passes the three assertions, render() runs
\* to its end without an unwrap panic, and every pixel of the image is written
\* exactly once (as is every pixel of each tile's buffer).
C2_EveryPixelWrittenOnce ==
    (rpc \notin {"start", "panic_assert"}) =>
        /\ rpc \notin {"panic_unwrap", "panic_join"}
        /\ \A w \in Workers :
              /\ wpc[w] # "panic_unwrap"
              /\ \A n \in 1..Len(wout[w]) :
                    \A p \in DOMAIN wout[w][n].data : wout[w][n].data[p].n = 1
        /\ (rpc \in {"merged", "done"}) => \A p \in DOMAIN image : image[p].n = 1

-----------------------------------------------------------------------------
(***************************************************************************)
(* Properties of the interval evaluator                                    *)
(***************************************************************************)

\* The min/max ops the running call has run so far.
Entries == {trace[i] : i \in DOMAIN trace}

\* An interval in the proper sense: no NaN bound, lower <= upper.
Proper(i) == Ordered(i[1], i[2]) /\ i[1] <= i[2]

\* a.upper < b.lower (false when either bound is NaN).
StrictlyBelow(a, b) == Ordered(a[2], b[1]) /\ a[2] < b[1]

HasNaN(i) == IsNaN(i[1]) \/ IsNaN(i[2])

\* The operand a min (max) keeps when one operand lies strictly below the other.
KeepsLhs(e) ==
    IF e.op = "Min" THEN StrictlyBelow(e.lhs, e.rhs) ELSE StrictlyBelow(e.rhs, e.lhs)
KeepsRhs(e) ==
    IF e.op = "Min" THEN StrictlyBelow(e.rhs, e.lhs) ELSE StrictlyBelow(e.lhs, e.rhs)

\* The two unambiguous outcomes: the output is the kept operand, its mark is
\* or-ed into the choice byte, the simplify byte is non-zero afterwards.
LeftOutcome(e) == e.out = e.lhs /\ e.post = BitOr(e.pre, CHOICE_LEFT) /\ e.sPost # 0
RightOutcome(e) == e.out = e.rhs /\ e.post = BitOr(e.pre, CHOICE_RIGHT) /\ e.sPost # 0

\* C3: for every min(a, b): a.upper < b.lower gives output a, mark Left and
\* simplify set; b.upper < a.lower gives output b, mark Right and simplify set;
\* max is the mirror image (a.lower > b.upper keeps a, b.lower > a.upper keeps
\* b).  Where both conditions hold at once either outcome is accepted.
C3_UnambiguousCases ==
    \A e \in Entries :
        /\ (KeepsLhs(e) /\ ~KeepsRhs(e)) => LeftOutcome(e)
        /\ (KeepsRhs(e) /\ ~KeepsLhs(e)) => RightOutcome(e)
        /\ (KeepsLhs(e) /\ KeepsRhs(e)) => (LeftOutcome(e) \/ RightOutcome(e))

\* C4: a min whose operands do not lie strictly apart (a NaN bound included)
\* marks its choice byte Both and does not write simplify; without a NaN bound
\* its output is [min(a.lower, b.lower), min(a.upper, b.upper)].
C4_AmbiguousMin ==
    \A e \in Entries :
        (e.op = "Min" /\ ~StrictlyBelow(e.lhs, e.rhs) /\ ~StrictlyBelow(e.rhs, e.lhs)) =>
            /\ e.post = BitOr(e.pre, CHOICE_BOTH)
            /\ e.sStore = {} /\ e.sPost = e.sPre
            /\ (~HasNaN(e.lhs) /\ ~HasNaN(e.rhs)) =>
                  e.out = <<IF e.lhs[1] < e.rhs[1] THEN e.lhs[1] ELSE e.rhs[1],
                            IF e.lhs[2] < e.rhs[2] THEN e.lhs[2] ELSE e.rhs[2]>>

\* C5: a min/max op never clears a bit that was set in a choice byte: neither
\* in its own byte nor in the next op's byte.
C5_NoBitCleared ==
    \A e \in Entries :
        /\ BitOr(e.post, e.pre) = e.post
        /\ (e.k + 1 < ChoiceCount(tape)) => BitOr(e.nextPost, e.nextPre) = e.nextPost

\* An op whose outcome was Left-only or Right-only.
Unambiguous(e) == e.path \in {"lhs", "rhs"}

\* C6: when the function returns, the simplify byte is non-zero exactly when
\* it was non-zero at the call or some min/max op of the call had an
\* unambiguous outcome; if every min/max was ambiguous the byte is unchanged.
C6_SimplifyIffUnambiguous ==
    Returning =>
        /\ (simp[0] # 0) <=> (simp0 # 0 \/ \E e \in Entries : Unambiguous(e))
        /\ (\A e \in Entries : ~Unambiguous(e)) => simp[0] = simp0

\* C6 (witness): a call that started with simplify clear returns with it set
\* after an ambiguous op followed by an unambiguous one.
C6_SetBySecondOp ==
    /\ Returning /\ simp0 = 0 /\ simp[0] # 0
    /\ Len(trace) = 2 /\ ~Unambiguous(trace[1]) /\ Unambiguous(trace[2])

\* An input with lower > upper and no NaN bound.
Empty(i) == Ordered(i[1], i[2]) /\ i[1] > i[2]

\* The running call was given an empty X or (where the function reads it) an
\* empty Y, and no NaN bound.
EmptyInput ==
    /\ ~HasNaN(argX) /\ ~HasNaN(argY)
    /\ Empty(argX) \/ (ReadsInput(tape, 1) /\ Empty(argY))

\* C7 (as stated): a call with an empty input interval returns [NaN, NaN] and
\* leaves the simplify byte as it was.
C7_EmptyGivesNaN ==
    (Returning /\ EmptyInput) => (ReturnValue = <<NaN, NaN>> /\ simp[0] = simp0)

\* The operands of a min/max lie strictly apart.
Apart(e) == StrictlyBelow(e.lhs, e.rhs) \/ StrictlyBelow(e.rhs, e.lhs)

\* C7 (amended): an empty input interval is not detected.  The function
\* computes on the bounds as given: a function of input, abs, min and max ops
\* returns no NaN bound, a function that is just an input returns it as it
\* came, and the simplify byte ends non-zero exactly when it was non-zero at
\* the call or some min/max had operands lying strictly apart.
C7_EmptyIsNotDetected ==
    (Returning /\ EmptyInput) =>
        /\ ~HasNaN(ReturnValue)
        /\ (Len(tape) = 1) => ReturnValue = argX
        /\ (simp[0] # 0) <=> (simp0 # 0 \/ \E e \in Entries : Apart(e))

\* C7 (witness): min(x, y) was called with an empty X lying strictly below Y
\* and simplify clear; it returns X and simplify is set.
C7_EmptySetsSimplify ==
    /\ Returning /\ EmptyInput /\ Empty(argX)
    /\ \E e \in Entries : e.op = "Min" /\ e.lhs = argX /\ StrictlyBelow(e.lhs, e.rhs)
    /\ ReturnValue = argX
    /\ simp0 = 0 /\ simp[0] # 0

\* C8: the k-th min/max op of a call (from 0) reads and writes choice byte k
\* and no other; each op advances the choice pointer by one, so a call uses
\* the bytes 0 .. choice_count - 1, each for one op.
C8_KthOpUsesByteK ==
    /\ \A i \in DOMAIN trace :
          /\ trace[i].k = i - 1
          /\ trace[i].cLoad = {i - 1}
          /\ trace[i].cStore = {i - 1}
    /\ Returning => (ptr = ChoiceCount(tape) /\ Len(trace) = ChoiceCount(tape))

\* abs of a proper interval.
AbsOf(i) ==
    IF i[1] >= 0 THEN i
    ELSE IF i[2] <= 0 THEN <<-i[2], -i[1]>>
    ELSE <<0, IF -i[1] > i[2] THEN -i[1] ELSE i[2]>>

\* The next step runs the code of an abs op.
AtAbs == ipc \in 1..Len(tape) /\ tape[ipc].op = "Abs"

\* C9: build_abs on either architecture maps every [a, b] with a <= b to
\* [a, b] if a >= 0, to [-b, -a] if b <= 0 and to [0, max(-a, b)] otherwise,
\* and touches neither a choice byte nor the choice pointer nor simplify.
C9_Abs ==
    [][AtAbs =>
          /\ Proper(regs[tape[ipc].lhs]) =>
                regs'[tape[ipc].out] = AbsOf(regs[tape[ipc].lhs])
          /\ UNCHANGED <<choices, ptr, simp>>]_vars

\* C9 (witness): abs(x) was called with X = [-6, 5] and returns [0, 6].
C9_AbsOfMinusSixFive ==
    /\ Returning
    /\ Len(tape) = 2 /\ tape[2].op = "Abs"
    /\ argX = <<-6, 5>>
    /\ ReturnValue = <<0, 6>>

-----------------------------------------------------------------------------
(***************************************************************************)
(* Properties of the jitfive backend                                       *)
(***************************************************************************)

\* C10: the function to_jit builds for abs(x), called through to_interval,
\* returns for every X = [a, b] with a <= b and any Y: [a, b] when a >= 0,
\* [-b, -a] when b <= 0 and [0, max(-a, b)] when a < 0 < b.
C10_JitfiveAbs ==
    (JitReturned /\ Len(jtape) = 2 /\ Proper(jx)) =>
        IntervalFuncResult(sreg) = AbsOf(jx)

-----------------------------------------------------------------------------
(***************************************************************************)
(* Properties of build_sqrt                                                *)
(***************************************************************************)

\* sqrt of a proper interval: NaN when fully negative, the lower bound clamped
\* to 0 when only it is negative.
SqrtOf(i) ==
    IF i[2] < 0 THEN <<NaN, NaN>>
    ELSE IF i[1] < 0 THEN <<0, Fsqrt(i[2])>>
    ELSE <<Fsqrt(i[1]), Fsqrt(i[2])>>

\* C11: sqrt(x) of a proper interval is [NaN, NaN] only when upper < 0, is
\* [0, sqrt(upper)] when lower < 0 <= upper and [sqrt(lower), sqrt(upper)]
\* otherwise; so sqrt([-1, 4]) = [0, 2] and sqrt([0, 0]) = [0, 0].
C11_Sqrt ==
    (Returning /\ Len(tape) = 2 /\ tape[2].op = "Sqrt" /\ Proper(argX)) =>
        ReturnValue = SqrtOf(argX)

-----------------------------------------------------------------------------
(***************************************************************************)
(* Properties of the scheduler                                             *)
(***************************************************************************)
\* The Min and Max nodes reachable from the root.
ChoiceNodes == {n \in Reachable : ctx[n].op = "Min" \/ ctx[n].op = "Max"}

AssignChoicesReturns == bpc = "assign_choices" /\ todo = <<>>

\* C12: the map assign_choices returns has exactly the Min and Max nodes
\* reachable from the root as its keys (no other node gets an index), gives
\* distinct nodes distinct indices, and uses exactly the indices 0..n-1,
\* n being the number of those nodes.
C12_ChoiceIndices ==
    AssignChoicesReturns =>
        /\ DOMAIN choice_id = ChoiceNodes
        /\ \A a, b \in DOMAIN choice_id : choice_id[a] = choice_id[b] => a = b
        /\ {choice_id[n] : n \in DOMAIN choice_id} = 0..(Cardinality(ChoiceNodes) - 1)

\* assign_choices returns two indices for the two choices of
\* max(min(f(c), g(c)), f(c)), and none for the nine other nodes.
C12_TwoChoices ==
    /\ AssignChoicesReturns
    /\ Cardinality(ChoiceNodes) = 2
    /\ Cardinality(Reachable) = 11

\* The weight of a node of a DAG: one more than the weights of its children,
\* a child counting once for each time the node names it.
RECURSIVE Weight(_)
Weight(n) ==
    LET c == ctx[n].args
    IN 1 + (IF Len(c) >= 1 THEN Weight(c[1]) ELSE 0) + (IF Len(c) >= 2 THEN Weight(c[2]) ELSE 0)

PickInlineReturns == bpc = "pick_inline" /\ todo = <<>>

\* C14: on a DAG pick_inline never fails to look a child's weight up and
\* never runs away; when it returns, `weights` holds for exactly the
\* reachable nodes 1 + the sum of the children's weights, counted at every
\* reference, and `inline` is exactly the reachable nodes of weight <= 7.
C14_Weights ==
    (bpc # "idle" /\ ~HasCycle) =>
        /\ bpc # "panic_unwrap_weight"
        /\ bpc # "runaway"
        /\ PickInlineReturns =>
            /\ weights = [n \in Reachable |-> Weight(n)]
            /\ inline = {n \in Reachable : Weight(n) <= 7}

\* pick_inline returns for (min(f(d), y)) + d: the root weighs 20, the
\* shared d weighs 8 and is not inline, the seven nodes below it are.
C14_SharedChildCountedTwice ==
    /\ PickInlineReturns
    /\ ctx = CrossRef /\ root = 12
    /\ weights[12] = 20 /\ weights[8] = 8
    /\ inline = (1..7) \cup {10}

C13_OneGroupPerNode ==
    bpc \in {"absorb", "globals"} =>
        /\ \A n \in Reachable \ inline : Cardinality(InGroups(n)) = 1
        /\ \A g, h \in Groups : dnf_nodes[g].dnf = dnf_nodes[h].dnf => g = h
        /\ \A n \in Nodes : Cardinality(InGroups(n)) > 1 => n \in inline

\* min(f(c), g(c)) after the absorption: three groups, f(c) and g(c) in one
\* each, and the inline c in both of them.
C13_InlineNodeInTwoGroups ==
    /\ bpc = "globals"
    /\ ctx = Shared /\ root = 10
    /\ Cardinality(Groups) = 3
    /\ Cardinality(InGroups(8)) = 1 /\ Cardinality(InGroups(9)) = 1
    /\ Cardinality(InGroups(7)) = 2

\* C15: neither assertion on `globals` fails, and the set buildy goes on
\* with holds the root and no inline node, whatever the weight of the root.
C15_Globals ==
    /\ bpc \notin {"panic_assert_globals_inline", "panic_assert_globals_root"}
    /\ bpc = "group_graph" => (root \in globals /\ globals \cap inline = {})

\* Position of a group in ordered_groups, from 1; 0 when it was not emitted.
EmittedAt(g) ==
    IF \E i \in 1..Len(ordered_groups) : ordered_groups[i] = g
    THEN CHOOSE i \in 1..Len(ordered_groups) : ordered_groups[i] = g
    ELSE 0

\* C16: on a DAG, when the flattening of the groups is over, the accesses
\* ordered_groups[0], group_order[g.0] and group_order[i] stay in bounds
\* and the assertion on ordered_groups[0] holds; the order starts with the group of the root, holds every group
\* exactly once, and puts every group behind all the groups that have it
\* as a child.
C16_GroupOrder ==
    ~HasCycle =>
        /\ bpc \notin {"panic_index_ordered_groups", "panic_assert_eq_root_group", "panic_index_group_order"}
        /\ (bpc = "node_order" /\ gi = 0) =>
            /\ root \in dnf_nodes[ordered_groups[1]].nodes
            /\ {ordered_groups[i] : i \in 1..Len(ordered_groups)} = Groups
            /\ Len(ordered_groups) = Cardinality(Groups)
            /\ \A g \in Groups : \A c \in children[g] : EmittedAt(g) < EmittedAt(c)
-----------------------------------------------------------------------------
(***************************************************************************)
(* Properties of the register convention and the point assembler          *)
(***************************************************************************)
\* buildy, lines 419-452: the register the root has, while it is in
\* `assigned` and once it is in `global_reg_assignments`, is Register(0);
\* when buildy returns the root has been given its register.
RootInRegisterZero ==
    /\ root \in DOMAIN assigned => assigned[root] = 0
    /\ root \in DOMAIN global_reg_assignments => global_reg_assignments[root] = 0
    /\ bpc = "Ok" => root \in DOMAIN global_reg_assignments

\* The point function of jit/aarch64/point.rs returns.
PointReturns == pphase = "run" /\ pphase' = "returned"

\* The point function of jitfive's from_tape returns.
FromTapeReturns == jpc = Len(jtape) + 1 /\ jpc' = jpc + 1

\* C18: the global register assignment of buildy gives the root node
\* Register(0), and both compiled point functions return, in s0, what fast
\* register 0 holds once the last op of the tape has run.
C18_RegisterZero ==
    /\ []RootInRegisterZero
    /\ [][PointReturns => (ppc = Len(ptape) + 1 /\ sregs'[0] = sregs[0 + OFFSET])]_vars
    /\ [][FromTapeReturns => sreg'[0] = sreg[0 + FAST_REG_OFFSET]]_vars

\* buildy has returned for a shape with several globals: the root has
\* Register(0) and another global has a register of its own.
C18_RootAndAnotherGlobal ==
    /\ bpc = "Ok"
    /\ global_reg_assignments[root] = 0
    /\ \E n \in DOMAIN global_reg_assignments : global_reg_assignments[n] # 0

\* C19: no call of build_load or build_store, made for a Load or Store op
\* of the tape or by build_min_mem_reg_choice / build_max_mem_reg_choice,
\* fails its assertion that the register is below REGISTER_LIMIT.
C19_RegistersBelowLimit == pphase \notin {"panic_build_load", "panic_build_store"}

\* A min or max reg-reg choice op is about to run.
AtRegRegChoice == pphase = "run" /\ ppc <= Len(ptape) /\ IsRegRegChoice(ptape[ppc])

\* C20: a step that runs build_min_reg_reg_choice (build_max_reg_reg_choice)
\* writes the contributor's value to the in/out register when bit 0 of the
\* choice byte is clear, leaves min (max) of the two values there when the
\* bit is set, and leaves bit 0 of the choice byte set.
C20_ChoiceReduction ==
    [][(AtRegRegChoice /\ ppc' = ppc + 1) =>
        LET o == ptape[ppc]
            byte == cbytes[o.index + 1]
            inout == sregs[reg(o.inout)]
            arg == sregs[reg(o.arg)]
            reduced == IF o.op = "MinRegRegChoice"
                       THEN (IF arg < inout THEN arg ELSE inout)
                       ELSE (IF arg > inout THEN arg ELSE inout)
        IN  /\ Bit(byte, 0) = 0 => sregs'[reg(o.inout)] = arg
            /\ (Bit(byte, 0) = 1 /\ Ordered(inout, arg)) => sregs'[reg(o.inout)] = reduced
            /\ Bit(cbytes'[o.index + 1], 0) = 1]_vars
-----------------------------------------------------------------------------
(***************************************************************************)
(* Properties of find_groups                                               *)
(***************************************************************************)
\* The choices a recorded condition names.
Names(dnf) == IF dnf = NoDnf THEN {} ELSE {dnf}

\* find_groups is about to take a min or max node, new under its
\* condition, from the work stack.
AtMinMax ==
    /\ bpc = "find_groups"
    /\ todo # <<>>
    /\ Top(todo)[1] \notin inline
    /\ IsMinMax(ctx[Top(todo)[1]])
    /\ (Top(todo)[1] \in DOMAIN node_dnfs => Top(todo)[2] \notin node_dnfs[Top(todo)[1]])

\* The choices on the paths of the walk from the root to n, one set for
\* each path: a min or max node with index k adds (k, Left) on the way to
\* its left operand and (k, Right) on the way to its right operand.
RECURSIVE PathChoices(_)
PathChoices(n) ==
    LET Via(p, i) == IF IsMinMax(ctx[p]) THEN {DnfClause(choice_id[p], IF i = 1 THEN Left ELSE Right)} ELSE {}
        edges == {e \in (DOMAIN ctx) \X (1..2) :
                    /\ e[1] \in DOMAIN node_dnfs
                    /\ e[2] <= Len(ctx[e[1]].args)
                    /\ ctx[e[1]].args[e[2]] = n}
    IN (IF n = root THEN {{}} ELSE {}) \cup
       UNION {{c \cup Via(e[1], e[2]) : c \in PathChoices(e[1])} : e \in edges}

\* C21: when find_groups takes a min or max node with ChoiceIndex k under
\* the condition c, it pushes the left operand with c extended by
\* (k, Left) and the right operand with c extended by (k, Right); the
\* conditions recorded for a node are then the choices of the paths that
\* lead to it, every enclosing choice named.
C21_ConditionsExtended ==
    /\ [][AtMinMax =>
            LET c == Top(todo)[2]
                k == choice_id[Top(todo)[1]]
                n == Len(todo')
            IN  /\ Names(todo'[n - 1][2]) = Names(c) \cup {DnfClause(k, Left)}
                /\ Names(todo'[n][2]) = Names(c) \cup {DnfClause(k, Right)}]_vars
    /\ []((bpc = "find_groups" /\ todo = <<>> /\ ~HasCycle) =>
            \A n \in DOMAIN node_dnfs : {Names(d) : d \in node_dnfs[n]} = PathChoices(n))
-----------------------------------------------------------------------------
(***************************************************************************)
(* Properties of the group and node ordering                               *)
(***************************************************************************)
\* The groups that are ready to be emitted: on the work stack of the
\* flatten loop, not emitted, all their parents emitted.
ReadyGroups ==
    {h \in Groups : h \in SeqSet(todo) /\ h \notin seen /\ CountOf(h) = 0}

\* The flatten loop emits a group.
EmitsGroup == bpc = "flatten" /\ Len(ordered_groups') = Len(ordered_groups) + 1

NodeOrders == IF bpc = "node_order" /\ gi > 0 THEN 1..Len(ordered_groups) ELSE {}

\* C23: the node order of a group lists every member of the group exactly
\* once and every node before all of its children that are members of the
\* group, also when a node references a child twice.
C23_NodeOrder ==
    \A j \in NodeOrders :
        LET g == groups[j - 1].nodes
            order == ordered_groups[j]
        IN  /\ SeqSet(order) = g
            /\ Len(order) = Cardinality(g)
            /\ \A a \in 1..Len(order) : \A b \in 1..Len(order) :
                    order[b] \in SeqSet(KidsIn(order[a], g)) => a < b

\* A group is ordered in which one node references a member twice and
\* another member is a child of two members.
C23_ChildReferencedTwice ==
    \E j \in NodeOrders :
        LET g == groups[j - 1].nodes
        IN  /\ \E n \in g : \E c \in g : Occurrences(KidsIn(n, g), c) = 2
            /\ \E c \in g : Cardinality({n \in g : c \in SeqSet(KidsIn(n, g))}) = 2
-----------------------------------------------------------------------------
(***************************************************************************)
(* Properties of the Swap op                                               *)
(***************************************************************************)
\* The code of the Swap op has run.
Swapped == swap # <<>> /\ swap.pc = 4

\* C24: after a Swap op the fast register holds what the memory slot held
\* and the memory slot holds what the register held: the one value in the
\* point function, both bounds of the interval in the interval function.
C24_SwapExchanges ==
    Swapped =>
        IF swap.fn = "from_tape"
        THEN /\ swap.fast_reg[1] = swap0.mem[1]
             /\ swap.mem[1] = swap0.fast_reg[1]
        ELSE /\ swap.fast_reg = swap0.mem
             /\ swap.mem = swap0.fast_reg
-----------------------------------------------------------------------------
(***************************************************************************)
(* Properties of the global register assignment                            *)
(***************************************************************************)
\* The walk of lines 423-452 is under way or over.
Assigning == bpc \in {"assign", "Ok"}

\* C25: during the walk the registers of the globals in `assigned` are
\* pairwise distinct and none of them is in `spare`; on a DAG the walk
\* never meets a global without a register and never fails one of its two
\* assertions; every global visited is recorded once, and when the walk is
\* over every global is recorded.
C25_RegisterAssignment ==
    /\ Assigning =>
            /\ \A a \in DOMAIN assigned : \A b \in DOMAIN assigned :
                    a # b => assigned[a] # assigned[b]
            /\ \A a \in DOMAIN assigned : assigned[a] \notin spare
            /\ DOMAIN global_reg_assignments \cap DOMAIN assigned = {}
            /\ DOMAIN global_reg_assignments \subseteq globals
    /\ ~HasCycle => bpc \notin {"panic_unassigned_global", "panic_assert_assigned_twice",
                                "panic_assert_still_assigned"}
    /\ bpc = "Ok" => DOMAIN global_reg_assignments = globals

\* The walk is at a point where two globals wait with a register each
\* while a global visited before has given its register back.
C25_TwoAssignedOneRecorded ==
    /\ bpc = "assign"
    /\ Cardinality(DOMAIN assigned) >= 2
    /\ \E n \in DOMAIN global_reg_assignments : n # root
    /\ \E n \in DOMAIN global_reg_assignments : \E a \in DOMAIN assigned :
            assigned[a] = global_reg_assignments[n]
-----------------------------------------------------------------------------
(***************************************************************************)
(* Properties of the split of the allocated tape                           *)
(***************************************************************************)
\* The cutoffs recorded for the groups, once `groups` holds the node orders.
RecordedCutoffs ==
    Cutoffs([j \in 1..Cardinality(DOMAIN groups) |-> Len(groups[j - 1].nodes)], 0)

\* C26: the i-th sub-tape has cutoffs[i] - cutoffs[i-1] ops, with 0 before
\* the first cutoff; the subtraction never underflows and the tape never
\* runs out; the sub-tapes together are the whole allocated tape.
C26_SubTapes ==
    /\ bpc # "panic_split_tape"
    /\ Assigning =>
            LET cutoffs == RecordedCutoffs
            IN  /\ Len(alloc_tapes) = Len(cutoffs)
                /\ \A i \in 1..Len(cutoffs) :
                        alloc_tapes[i] = cutoffs[i] - (IF i = 1 THEN 0 ELSE cutoffs[i - 1])
                /\ SumOf(alloc_tapes, [i \in 1..Len(alloc_tapes) |-> i]) =
                        (IF cutoffs = <<>> THEN 0 ELSE cutoffs[Len(cutoffs)])
-----------------------------------------------------------------------------
(***************************************************************************)
(* Properties of the two implementations of IntervalAssembler              *)
(***************************************************************************)
\* The code of an op of the tape is about to run.
AboutToRun == ipc \in 1..Len(tape)

\* Two runs of a min or max leave the same output interval, the same choice
\* byte and the simplify byte zero in both or non-zero in both.
SameOutcome(a, x) ==
    /\ a.out = x.out
    /\ a.c0 = x.c0
    /\ (a.s0 = 0) <=> (x.s0 = 0)

\* C27: on the operands, choice byte and simplify byte an op finds, the
\* aarch64 code and the x86_64 code for it give the same output interval,
\* the same choice byte and the same zero/non-zero simplify byte.
C27_SameOnBothArchs ==
    AboutToRun =>
        LET o == tape[ipc]
            lhs == regs[o.lhs]
            rhs == regs[o.rhs]
        IN  CASE o.op = "Abs" -> Aarch64BuildAbs(lhs) = X86BuildAbs(lhs)
              [] o.op = "Min" ->
                    SameOutcome(Aarch64BuildMin(lhs, rhs, choices[ptr], choices[ptr + 1], simp[0], simp[1]),
                                X86BuildMin(lhs, rhs, choices[ptr], choices[ptr + 1], simp[0], simp[1]))
              [] o.op = "Max" ->
                    SameOutcome(Aarch64BuildMax(lhs, rhs, choices[ptr], choices[ptr + 1], simp[0], simp[1]),
                                X86BuildMax(lhs, rhs, choices[ptr], choices[ptr + 1], simp[0], simp[1]))
              [] OTHER -> TRUE

\* The code of a min or max op runs in this step.
RunsChoiceOp == AboutToRun /\ IsChoiceOp(tape[ipc]) /\ ipc' = ipc + 1

\* C28: a min or max op changes no byte but its own choice byte and the
\* simplify byte: the other choice bytes and the bytes behind both buffers
\* keep their values, and every byte the op loads or stores lies in the
\* choice buffer [0, choice_count) or is the simplify byte.
C28_OnlyOwnBytes ==
    [][RunsChoiceOp =>
        LET e == trace'[Len(trace')]
        IN  /\ \A j \in ChoiceOffsets \ {ptr} : choices'[j] = choices[j]
            /\ simp'[1] = simp[1]
            /\ \A j \in e.cLoad \cup e.cStore : j < ChoiceCount(tape)
            /\ e.sStore \subseteq {0}]_vars
-----------------------------------------------------------------------------
(***************************************************************************)
(* Termination of the scheduler's loops                                    *)
(***************************************************************************)
\* The phases of buildy that are worklist loops over `todo`.
WorklistLoops ==
    {"pick_inline", "assign_choices", "find_groups", "parent_count", "flatten",
     "node_count", "node_flatten"}

\* A step that leaves a worklist loop.
LeavesLoop == bpc \in WorklistLoops /\ bpc' # bpc

\* No step of buildy is left to take.
Stopped == ~ENABLED NextBuildy

\* C29: on a DAG every worklist loop of the scheduler comes to an empty
\* work stack: pick_inline, assign_choices, find_groups, the absorption of
\* the inline nodes, the two loops of the group ordering and the two loops
\* of the node ordering.  The run stops, no loop is left with work on its
\* stack, and the stack never outgrows MaxTodo entries.
C29_LoopsTerminate ==
    /\ (bpc = "pick_inline" /\ ~HasCycle) ~> Stopped
    /\ [][LeavesLoop /\ ~HasCycle => todo = <<>>]_vars
    /\ [](~HasCycle => bpc # "runaway" /\ Len(todo) <= MaxTodo)

\* buildy has gone through all its loops on a DAG in which a node has two
\* parents and find_groups has met a min or max.
C29_AllLoopsDone ==
    /\ bpc = "Ok"
    /\ ~HasCycle
    /\ choice_id # <<>>
    /\ \E n \in DOMAIN ctx : Cardinality({q \in DOMAIN weights : n \in ChildrenOf({q})}) >= 2
-----------------------------------------------------------------------------
(***************************************************************************)
(* Properties of the rendered image                                        *)
(***************************************************************************)
\* What a worker that has just got its evaluator renders for the tile, and
\* the evaluator as that leaves it.
FreshRender(tile) == TileWrites(Evaluator(shape), config, tile[1], tile[2])

FreshTile(tile) == Buffer(config.tile_size * config.tile_size, FreshRender(tile).writes)

\* C30: the image render returns is the same for every thread count >= 1 and
\* every interleaving of the workers: when render returns, the pixels of
\* every entry of `out` are those a fresh evaluator gives for the entry's
\* tile, whichever worker pushed it and whatever that worker's evaluator
\* rendered before, and every slot of the image holds the pixel of the tile
\* that covers it.
C30_Deterministic ==
    rpc = "done" =>
        /\ \A k \in 1..Len(out) : out[k].data = FreshTile(out[k].tile)
        /\ \A t \in 1..Len(Tiles(config)) :
                LET tile == Tiles(config)[t]
                    fresh == FreshTile(tile)
                IN  \A i, j \in 0..(config.tile_size - 1) :
                        image[(i + tile[1])
                               + (config.image_size - (j + tile[2]) - 1) * config.image_size].val
                            = fresh[i + j * config.tile_size].val

\* render has returned an image made by two workers, and one of them
\* rendered pixel by pixel a tile whose min or max leaves another mark on a
\* fresh evaluator than an earlier tile of that worker does, on an evaluator
\* that does not clear its choice byte.
C30_ReusedEvaluator ==
    /\ rpc = "done"
    /\ config.threads = 2
    /\ ~zeroes
    /\ HasChoice(shape)
    /\ \E w \in Workers : \E k \in 2..Len(wout[w]) : \E j \in 1..(k - 1) :
            /\ FreshRender(wout[w][j].tile).eval.choice
                    # FreshRender(wout[w][k].tile).eval.choice
            /\ \E p \in DOMAIN wout[w][k].data :
                    wout[w][k].data[p].val \in {"Filled", "Empty"}
====
